---- MODULE Spec2Model ----
(***************************************************************************)
(* Deployment lineage table of spk (lib/azure/deploymenttable): the three  *)
(* stage resolvers, the manifest-commit finalizer and the table primitives *)
(* they call, run by concurrent callers against one shared table.          *)
(*                                                                         *)
(* A string is a sequence of one-letter characters, so that toLowerCase is *)
(* computed letter by letter and "" is the empty sequence.  A property an  *)
(* entity does not have holds Undefined.                                   *)
(***************************************************************************)
EXTENDS Integers, Sequences, FiniteSets, TLC

\* ------------------------------------------------------------------ bounds
NumProcs == 2
MaxCalls == 3
MaxReleaseCalls == 5
MaxCaseCalls == 3
MaxManifestCalls == 4
MaxFinalizeCalls == 4
MaxRaceCalls == 3
MaxSelfTestCalls == 2
MaxCommandCalls == 2
MaxRedeliverCalls == 4
MaxCorrelateCalls == 3
MaxCommitCalls == 3
MaxDegradedCalls == 3
MaxValidateCalls == 2
MaxPartitionCalls == 3
MaxRowKey == 3

Procs == 1..NumProcs
RowKeys == 1..MaxRowKey

\* ----------------------------------------------------------------- strings
Undefined == <<"undefined">>

LowerChar(c) ==
  CASE c = "B" -> "b"
    [] c = "C" -> "c"
    [] c = "E" -> "e"
    [] c = "H" -> "h"
    [] c = "M" -> "m"
    [] c = "P" -> "p"
    [] c = "Q" -> "q"
    [] c = "R" -> "r"
    [] c = "S" -> "s"
    [] c = "T" -> "t"
    [] c = "U" -> "u"
    [] OTHER -> c

\* String.prototype.toLowerCase
ToLowerCase(s) == [i \in DOMAIN s |-> LowerChar(s[i])]

\* JavaScript truthiness of an optional string argument: undefined and ""
\* are falsy.
Truthy(s) == s # Undefined /\ s # <<>>

\* Truthiness of an entity property as the query returns it: a present
\* property is an object { _: value }, truthy whatever its value.
Present(v) == v # Undefined

\* ------------------------------------------------------------ input domains
PartitionKeys == {<<"k">>}
BuildIds == {<<"B">>}
ImageTags == {<<"T">>}
Services == {<<"S">>}
CommitIds == {<<"C">>}
SourceRepos == {Undefined, <<"U">>}
ReleaseIds == {<<"p">>, <<"P">>}
ReleaseHldCommitIds == {<<"h">>}
Envs == {<<"e">>, <<>>}
PullRequests == {Undefined, <<"r">>}
HldRepos == {Undefined}
ManifestHldCommitIds == {<<"h">>, <<"H">>}
ManifestBuildIds == {<<"q">>, <<"Q">>}
ManifestCommitIds == {Undefined, <<"M">>}
ManifestRepos == {Undefined}
FinalCommitIds == {<<"M">>}

\* ---------------------------------------------------------------- entities
\* An entity of the table.  etag is the version the table keeps for the row
\* (the ".metadata" of a queried entity); 0 on an object the code built
\* itself, which carries no version.
NoArgs ==
  [partitionKey |-> Undefined, pipelineId |-> Undefined, imageTag |-> Undefined,
   serviceName |-> Undefined, commitId |-> Undefined, hldCommitId |-> Undefined,
   env |-> Undefined, manifestCommitId |-> Undefined, pr |-> Undefined,
   repository |-> Undefined]

BlankRow ==
  [PartitionKey |-> Undefined, RowKey |-> 0, commitId |-> Undefined,
   imageTag |-> Undefined, p1 |-> Undefined, service |-> Undefined,
   sourceRepo |-> Undefined, p2 |-> Undefined, hldCommitId |-> Undefined,
   env |-> Undefined, pr |-> Undefined, hldRepo |-> Undefined,
   p3 |-> Undefined, manifestCommitId |-> Undefined,
   manifestRepo |-> Undefined, etag |-> 0]

NoEntry == [BlankRow EXCEPT !.RowKey = 0 - 1]

Key(e) == <<e.PartitionKey, e.RowKey>>

Keys(st) == {Key(e) : e \in st}

\* The entity of the table under the key of e.
RowAt(st, k) == CHOOSE r \in st : Key(r) = k

\* --------------------------------------------------------- table primitives
\* Mutant: insertOrReplaceEntity, which takes any key.
InsertOk_OrReplace(st, e) == TRUE

\* tableService.insertEntity: fails when the key exists.
InsertOk(st, e) == Key(e) \notin Keys(st)

insertToTable(st, e) == st \cup {[e EXCEPT !.etag = 1]}

\* tableService.replaceEntity: fails when the key does not exist, or when the
\* entity carries a version and the row's version differs.
ReplaceOk(st, e) ==
  /\ Key(e) \in Keys(st)
  /\ e.etag # 0 => RowAt(st, Key(e)).etag = e.etag

\* tableService.deleteEntity: fails when the key does not exist, or when the
\* entity carries a version and the row's version differs.
DeleteOk(st, e) ==
  /\ Key(e) \in Keys(st)
  /\ e.etag # 0 => RowAt(st, Key(e)).etag = e.etag

\* Mutant: the delete is confirmed and the row stays.
deleteFromTable_Keeps(st, e) == st

deleteFromTable(st, e) == st \ {RowAt(st, Key(e))}

\* Mutant: the old row is deleted and the new entity is not stored.
updateEntryInTable_Deletes(st, e) == st \ {RowAt(st, Key(e))}

updateEntryInTable(st, e) ==
  LET old == RowAt(st, Key(e))
  IN (st \ {old}) \cup {[e EXCEPT !.etag = old.etag + 1]}

\* The rows of st in the table's native order (ascending RowKey within a
\* partition).
RECURSIVE SortRows(_)
SortRows(rows) ==
  IF rows = {} THEN <<>>
  ELSE LET first == CHOOSE r \in rows : \A o \in rows : r.RowKey <= o.RowKey
       IN <<first>> \o SortRows(rows \ {first})

\* Mutant: the query without its PartitionKey clause.
findMatchingDeployments_AnyKey(st, partitionKey, filterName, filterValue) ==
  SortRows({r \in st : r[filterName] = filterValue})

\* tableService.queryEntities with PartitionKey eq .. and filterName eq ..
findMatchingDeployments(st, partitionKey, filterName, filterValue) ==
  SortRows({r \in st : r.PartitionKey = partitionKey
                       /\ r[filterName] = filterValue})

\* ------------------------------------------------------------------- state
\* store is the table; the rest is each caller's position in its call.
\* callsLeft bounds the number of calls of a run; before is the table as the
\* step that ended the call found it; queries is the list of the queries the
\* call has sent, each with the number of entries it got back.  selfTest is
\* what a run of the self-test holds between its steps, and command the
\* options a command was started with and the statuses it has called its
\* exit function with.
VARIABLES store, pc, op, args, entries, ret, writes, storeErrors, callsLeft,
          before, queries, selfTest, command

vars == <<store, pc, op, args, entries, ret, writes, storeErrors, callsLeft,
          before, queries, selfTest, command>>

\* create.ts CommandOptions, all undefined.
NoOpts ==
  [accessKey |-> Undefined, name |-> Undefined, partitionKey |-> Undefined,
   tableName |-> Undefined, p1 |-> Undefined, p2 |-> Undefined,
   p3 |-> Undefined, imageTag |-> Undefined, commitId |-> Undefined,
   service |-> Undefined, hldCommitId |-> Undefined, env |-> Undefined,
   manifestCommitId |-> Undefined, pr |-> Undefined, repository |-> Undefined]

\* No command is running.  thrown names the throw statement the command
\* has reached, if any.
NoCommand == [opts |-> NoOpts, exits |-> <<>>, thrown |-> "none"]

\* No self-test is running.
NoSelfTest ==
  [buildId |-> Undefined, foundEntry |-> FALSE, deletes |-> 0,
   deleted |-> {}, isVerified |-> "none"]

Init ==
  /\ store = {}
  /\ pc = [p \in Procs |-> "idle"]
  /\ op = [p \in Procs |-> "none"]
  /\ args = [p \in Procs |-> NoArgs]
  /\ entries = [p \in Procs |-> <<>>]
  /\ ret = [p \in Procs |-> NoEntry]
  /\ writes = [p \in Procs |-> 0]
  /\ storeErrors = [p \in Procs |-> 0]
  /\ callsLeft = MaxCalls
  /\ before = [p \in Procs |-> {}]
  /\ queries = [p \in Procs |-> <<>>]
  /\ selfTest = [p \in Procs |-> NoSelfTest]
  /\ command = [p \in Procs |-> NoCommand]

\* ------------------------------------------------- stage 2: artifact -> HLD
\* Mutant: the test without its env clause.
ArcToHLDMatches_IgnoreEnv(entry, a) ==
  /\ (IF Present(entry.p2) THEN entry.p2 = a.pipelineId ELSE TRUE)
  /\ (IF Present(entry.hldCommitId) THEN entry.hldCommitId = a.hldCommitId
      ELSE TRUE)

\* The test of entries.find in updateMatchingArcToHLDPipelineEntry: a
\* property the entry has must equal the raw input.
ArcToHLDMatches(entry, a) ==
  /\ (IF Present(entry.p2) THEN entry.p2 = a.pipelineId ELSE TRUE)
  /\ (IF Present(entry.hldCommitId) THEN entry.hldCommitId = a.hldCommitId
      ELSE TRUE)
  /\ (IF Present(entry.env) THEN entry.env = a.env ELSE TRUE)

\* Array.prototype.find: the first entry that passes, or NoEntry.
FoundArcToHLD(es, a) ==
  LET hits == {i \in DOMAIN es : ArcToHLDMatches(es[i], a)}
  IN IF hits = {} THEN NoEntry
     ELSE es[CHOOSE i \in hits : \A j \in hits : i <= j]

\* Mutant: env and hldCommitId stored as given.
UpdateEntryArcToHLD_Raw(found, a) ==
  [BlankRow EXCEPT
     !.PartitionKey = found.PartitionKey,
     !.RowKey = found.RowKey,
     !.commitId = found.commitId,
     !.env = a.env,
     !.hldCommitId = a.hldCommitId,
     !.imageTag = found.imageTag,
     !.p1 = found.p1,
     !.p2 = ToLowerCase(a.pipelineId),
     !.service = found.service,
     !.sourceRepo = found.sourceRepo,
     !.pr = IF Truthy(a.pr) THEN ToLowerCase(a.pr) ELSE Undefined,
     !.hldRepo = IF Truthy(a.repository) THEN ToLowerCase(a.repository)
                 ELSE Undefined]

\* updateEntry of updateMatchingArcToHLDPipelineEntry.
UpdateEntryArcToHLD(found, a) ==
  [BlankRow EXCEPT
     !.PartitionKey = found.PartitionKey,
     !.RowKey = found.RowKey,
     !.commitId = found.commitId,
     !.env = ToLowerCase(a.env),
     !.hldCommitId = ToLowerCase(a.hldCommitId),
     !.imageTag = found.imageTag,
     !.p1 = found.p1,
     !.p2 = ToLowerCase(a.pipelineId),
     !.service = found.service,
     !.sourceRepo = found.sourceRepo,
     !.pr = IF Truthy(a.pr) THEN ToLowerCase(a.pr) ELSE Undefined,
     !.hldRepo = IF Truthy(a.repository) THEN ToLowerCase(a.repository)
                 ELSE Undefined]

\* Mutant: the clone taken from the first candidate instead of the last.
LastRowArcToHLD_First(es, a, rowKey) ==
  LET lastEntry == es[1]
  IN [BlankRow EXCEPT
        !.PartitionKey = lastEntry.PartitionKey,
        !.RowKey = rowKey,
        !.commitId = lastEntry.commitId,
        !.env = ToLowerCase(a.env),
        !.hldCommitId = ToLowerCase(a.hldCommitId),
        !.imageTag = lastEntry.imageTag,
        !.p1 = lastEntry.p1,
        !.p2 = ToLowerCase(a.pipelineId),
        !.service = lastEntry.service,
        !.sourceRepo = lastEntry.sourceRepo,
        !.pr = IF Truthy(a.pr) THEN ToLowerCase(a.pr) ELSE Undefined,
        !.hldRepo = IF Truthy(a.repository) THEN ToLowerCase(a.repository)
                    ELSE Undefined]

\* last of updateLastRowOfArcToHLDPipelines.
LastRowArcToHLD(es, a, rowKey) ==
  LET lastEntry == es[Len(es)]
  IN [BlankRow EXCEPT
        !.PartitionKey = lastEntry.PartitionKey,
        !.RowKey = rowKey,
        !.commitId = lastEntry.commitId,
        !.env = ToLowerCase(a.env),
        !.hldCommitId = ToLowerCase(a.hldCommitId),
        !.imageTag = lastEntry.imageTag,
        !.p1 = lastEntry.p1,
        !.p2 = ToLowerCase(a.pipelineId),
        !.service = lastEntry.service,
        !.sourceRepo = lastEntry.sourceRepo,
        !.pr = IF Truthy(a.pr) THEN ToLowerCase(a.pr) ELSE Undefined,
        !.hldRepo = IF Truthy(a.repository) THEN ToLowerCase(a.repository)
                    ELSE Undefined]

\* Mutant: the synthetic row keeping the image tag as given.
NewRowArcToHLD_RawTag(a, rowKey) ==
  [BlankRow EXCEPT
     !.PartitionKey = a.partitionKey,
     !.RowKey = rowKey,
     !.commitId = <<>>,
     !.env = ToLowerCase(a.env),
     !.hldCommitId = ToLowerCase(a.hldCommitId),
     !.imageTag = a.imageTag,
     !.p1 = <<>>,
     !.p2 = ToLowerCase(a.pipelineId),
     !.service = <<>>,
     !.pr = IF Truthy(a.pr) THEN ToLowerCase(a.pr) ELSE Undefined,
     !.hldRepo = IF Truthy(a.repository) THEN ToLowerCase(a.repository)
                 ELSE Undefined]

\* newEntry of addNewRowToArcToHLDPipelines.
NewRowArcToHLD(a, rowKey) ==
  [BlankRow EXCEPT
     !.PartitionKey = a.partitionKey,
     !.RowKey = rowKey,
     !.commitId = <<>>,
     !.env = ToLowerCase(a.env),
     !.hldCommitId = ToLowerCase(a.hldCommitId),
     !.imageTag = ToLowerCase(a.imageTag),
     !.p1 = <<>>,
     !.p2 = ToLowerCase(a.pipelineId),
     !.service = <<>>,
     !.pr = IF Truthy(a.pr) THEN ToLowerCase(a.pr) ELSE Undefined,
     !.hldRepo = IF Truthy(a.repository) THEN ToLowerCase(a.repository)
                 ELSE Undefined]

\* Mutant: the clone written over the last candidate instead of beside it.
WritesACRToHLD_OverwriteLast(es, a, rowKey) ==
  IF Len(es) > 0
  THEN IF FoundArcToHLD(es, a) # NoEntry
       THEN <<[kind |-> "replace",
               entity |-> UpdateEntryArcToHLD(FoundArcToHLD(es, a), a)]>>
       ELSE <<[kind |-> "replace",
               entity |-> LastRowArcToHLD(es, a, es[Len(es)].RowKey)]>>
  ELSE <<[kind |-> "insert", entity |-> NewRowArcToHLD(a, rowKey)]>>

\* Mutant: "return found" missing, so a match is followed by the clone.
WritesACRToHLD_FallThrough(es, a, rowKey) ==
  IF Len(es) > 0
  THEN IF FoundArcToHLD(es, a) # NoEntry
       THEN <<[kind |-> "replace",
               entity |-> UpdateEntryArcToHLD(FoundArcToHLD(es, a), a)],
              [kind |-> "insert", entity |-> LastRowArcToHLD(es, a, rowKey)]>>
       ELSE <<[kind |-> "insert", entity |-> LastRowArcToHLD(es, a, rowKey)]>>
  ELSE <<[kind |-> "insert", entity |-> NewRowArcToHLD(a, rowKey)]>>

\* Mutant: the matched row written as a new row under a generated RowKey.
WritesACRToHLD_InsertMatch(es, a, rowKey) ==
  IF Len(es) > 0
  THEN IF FoundArcToHLD(es, a) # NoEntry
       THEN <<[kind |-> "insert",
               entity |-> [UpdateEntryArcToHLD(FoundArcToHLD(es, a), a)
                             EXCEPT !.RowKey = rowKey]]>>
       ELSE <<[kind |-> "insert", entity |-> LastRowArcToHLD(es, a, rowKey)]>>
  ELSE <<[kind |-> "insert", entity |-> NewRowArcToHLD(a, rowKey)]>>

\* The writes updateACRToHLDPipeline issues after its query, in order: each
\* is <<primitive, entity>>.
WritesACRToHLD(es, a, rowKey) ==
  IF Len(es) > 0
  THEN IF FoundArcToHLD(es, a) # NoEntry
       THEN <<[kind |-> "replace",
               entity |-> UpdateEntryArcToHLD(FoundArcToHLD(es, a), a)]>>
       ELSE <<[kind |-> "insert", entity |-> LastRowArcToHLD(es, a, rowKey)]>>
  ELSE <<[kind |-> "insert", entity |-> NewRowArcToHLD(a, rowKey)]>>

\* ------------------------------------------------ stage 1: source -> artifact
\* Mutant: the image tag and the service name stored in lower case.
SrcToACRRow_Lowered(a, rowKey) ==
  [BlankRow EXCEPT
     !.PartitionKey = a.partitionKey,
     !.RowKey = rowKey,
     !.commitId = a.commitId,
     !.imageTag = ToLowerCase(a.imageTag),
     !.p1 = a.pipelineId,
     !.service = ToLowerCase(a.serviceName),
     !.sourceRepo = IF Truthy(a.repository) THEN ToLowerCase(a.repository)
                    ELSE Undefined]

\* entry of addSrcToACRPipeline.
SrcToACRRow(a, rowKey) ==
  [BlankRow EXCEPT
     !.PartitionKey = a.partitionKey,
     !.RowKey = rowKey,
     !.commitId = a.commitId,
     !.imageTag = a.imageTag,
     !.p1 = a.pipelineId,
     !.service = a.serviceName,
     !.sourceRepo = IF Truthy(a.repository) THEN ToLowerCase(a.repository)
                    ELSE Undefined]

\* ------------------------------------------------ stage 3: HLD -> manifest
\* Mutant: the test without its manifestCommitId clause.
HLDtoManifestMatches_RunIdOnly(entry, a) ==
  IF Present(entry.p3) THEN entry.p3 = a.pipelineId ELSE TRUE

\* The test of entries.find in updateHLDtoManifestEntry.
HLDtoManifestMatches(entry, a) ==
  /\ (IF Present(entry.p3) THEN entry.p3 = a.pipelineId ELSE TRUE)
  /\ (IF Present(entry.manifestCommitId)
      THEN entry.manifestCommitId = a.manifestCommitId ELSE TRUE)

FoundHLDtoManifest(es, a) ==
  LET hits == {i \in DOMAIN es : HLDtoManifestMatches(es[i], a)}
  IN IF hits = {} THEN NoEntry
     ELSE es[CHOOSE i \in hits : \A j \in hits : i <= j]

\* Mutant: the matched row keeps the hldCommitId it had.
UpdateEntryHLDtoManifest_KeepsHld(found, a) ==
  [BlankRow EXCEPT
     !.PartitionKey = found.PartitionKey,
     !.RowKey = found.RowKey,
     !.commitId = found.commitId,
     !.env = found.env,
     !.hldCommitId = found.hldCommitId,
     !.hldRepo = found.hldRepo,
     !.imageTag = found.imageTag,
     !.p1 = found.p1,
     !.p2 = found.p2,
     !.p3 = ToLowerCase(a.pipelineId),
     !.service = found.service,
     !.sourceRepo = found.sourceRepo,
     !.manifestCommitId = IF Truthy(a.manifestCommitId)
                          THEN ToLowerCase(a.manifestCommitId) ELSE Undefined,
     !.pr = IF Truthy(a.pr) THEN a.pr ELSE Undefined,
     !.manifestRepo = IF Truthy(a.repository) THEN ToLowerCase(a.repository)
                      ELSE Undefined]

\* entry of updateHLDtoManifestEntry.
UpdateEntryHLDtoManifest(found, a) ==
  [BlankRow EXCEPT
     !.PartitionKey = found.PartitionKey,
     !.RowKey = found.RowKey,
     !.commitId = found.commitId,
     !.env = found.env,
     !.hldCommitId = a.hldCommitId,
     !.hldRepo = found.hldRepo,
     !.imageTag = found.imageTag,
     !.p1 = found.p1,
     !.p2 = found.p2,
     !.p3 = ToLowerCase(a.pipelineId),
     !.service = found.service,
     !.sourceRepo = found.sourceRepo,
     !.manifestCommitId = IF Truthy(a.manifestCommitId)
                          THEN ToLowerCase(a.manifestCommitId) ELSE Undefined,
     !.pr = IF Truthy(a.pr) THEN a.pr ELSE Undefined,
     !.manifestRepo = IF Truthy(a.repository) THEN ToLowerCase(a.repository)
                      ELSE Undefined]

\* Mutant: the clone taken from the first candidate instead of the last.
LastRowHLDtoManifest_First(es, a, rowKey) ==
  LET lastEntry == es[1]
  IN [BlankRow EXCEPT
        !.PartitionKey = lastEntry.PartitionKey,
        !.RowKey = rowKey,
        !.commitId = lastEntry.commitId,
        !.env = lastEntry.env,
        !.hldCommitId = ToLowerCase(a.hldCommitId),
        !.hldRepo = lastEntry.hldRepo,
        !.imageTag = lastEntry.imageTag,
        !.p1 = lastEntry.p1,
        !.p2 = lastEntry.p2,
        !.p3 = ToLowerCase(a.pipelineId),
        !.service = lastEntry.service,
        !.sourceRepo = lastEntry.sourceRepo,
        !.manifestCommitId = IF Truthy(a.manifestCommitId)
                             THEN ToLowerCase(a.manifestCommitId)
                             ELSE Undefined,
        !.pr = IF Truthy(a.pr) THEN ToLowerCase(a.pr) ELSE Undefined,
        !.manifestRepo = IF Truthy(a.repository) THEN ToLowerCase(a.repository)
                         ELSE Undefined]

\* newEntry of updateLastHLDtoManifestEntry.
LastRowHLDtoManifest(es, a, rowKey) ==
  LET lastEntry == es[Len(es)]
  IN [BlankRow EXCEPT
        !.PartitionKey = lastEntry.PartitionKey,
        !.RowKey = rowKey,
        !.commitId = lastEntry.commitId,
        !.env = lastEntry.env,
        !.hldCommitId = ToLowerCase(a.hldCommitId),
        !.hldRepo = lastEntry.hldRepo,
        !.imageTag = lastEntry.imageTag,
        !.p1 = lastEntry.p1,
        !.p2 = lastEntry.p2,
        !.p3 = ToLowerCase(a.pipelineId),
        !.service = lastEntry.service,
        !.sourceRepo = lastEntry.sourceRepo,
        !.manifestCommitId = IF Truthy(a.manifestCommitId)
                             THEN ToLowerCase(a.manifestCommitId)
                             ELSE Undefined,
        !.pr = IF Truthy(a.pr) THEN ToLowerCase(a.pr) ELSE Undefined,
        !.manifestRepo = IF Truthy(a.repository) THEN ToLowerCase(a.repository)
                         ELSE Undefined]

\* Mutant: the synthetic row with an undefined env and image tag in place
\* of the empty strings.
NewRowHLDtoManifest_NoBlanks(a, rowKey) ==
  [BlankRow EXCEPT
     !.PartitionKey = a.partitionKey,
     !.RowKey = rowKey,
     !.commitId = <<>>,
     !.hldCommitId = ToLowerCase(a.hldCommitId),
     !.p1 = <<>>,
     !.p2 = <<>>,
     !.p3 = ToLowerCase(a.pipelineId),
     !.service = <<>>,
     !.manifestCommitId = IF Truthy(a.manifestCommitId)
                          THEN ToLowerCase(a.manifestCommitId) ELSE Undefined,
     !.pr = IF Truthy(a.pr) THEN ToLowerCase(a.pr) ELSE Undefined,
     !.manifestRepo = IF Truthy(a.repository) THEN ToLowerCase(a.repository)
                      ELSE Undefined]

\* newEntry of addNewRowToHLDtoManifestPipeline.
NewRowHLDtoManifest(a, rowKey) ==
  [BlankRow EXCEPT
     !.PartitionKey = a.partitionKey,
     !.RowKey = rowKey,
     !.commitId = <<>>,
     !.env = <<>>,
     !.hldCommitId = ToLowerCase(a.hldCommitId),
     !.imageTag = <<>>,
     !.p1 = <<>>,
     !.p2 = <<>>,
     !.p3 = ToLowerCase(a.pipelineId),
     !.service = <<>>,
     !.manifestCommitId = IF Truthy(a.manifestCommitId)
                          THEN ToLowerCase(a.manifestCommitId) ELSE Undefined,
     !.pr = IF Truthy(a.pr) THEN ToLowerCase(a.pr) ELSE Undefined,
     !.manifestRepo = IF Truthy(a.repository) THEN ToLowerCase(a.repository)
                      ELSE Undefined]

\* Mutant: the clone written over the last candidate instead of beside it.
WritesHLDtoManifest_OverwriteLast(es, a, rowKey) ==
  IF Len(es) > 0
  THEN IF FoundHLDtoManifest(es, a) # NoEntry
       THEN <<[kind |-> "replace",
               entity |-> UpdateEntryHLDtoManifest(FoundHLDtoManifest(es, a), a)]>>
       ELSE <<[kind |-> "replace",
               entity |-> LastRowHLDtoManifest(es, a, es[Len(es)].RowKey)]>>
  ELSE <<[kind |-> "insert", entity |-> NewRowHLDtoManifest(a, rowKey)]>>

\* The writes updateHLDtoManifestHelper issues, in order.
WritesHLDtoManifest(es, a, rowKey) ==
  IF Len(es) > 0
  THEN IF FoundHLDtoManifest(es, a) # NoEntry
       THEN <<[kind |-> "replace",
               entity |-> UpdateEntryHLDtoManifest(FoundHLDtoManifest(es, a), a)]>>
       ELSE <<[kind |-> "insert",
               entity |-> LastRowHLDtoManifest(es, a, rowKey)]>>
  ELSE <<[kind |-> "insert", entity |-> NewRowHLDtoManifest(a, rowKey)]>>

\* Mutant: the query by pr sent whenever a pr was given.
QueriesByPr_Always(es, a) == Truthy(a.pr)

\* Whether updateHLDToManifestPipeline queries again, by pr.
QueriesByPr(es, a) == Len(es) = 0 /\ Truthy(a.pr)

\* ------------------------------------------------ manifest-commit finalizer
\* Mutant: the entity rebuilt from its keys and run id, as the stage
\* resolvers rebuild theirs.
ManifestCommitRow_Rebuilt(entry, a) ==
  [BlankRow EXCEPT
     !.PartitionKey = entry.PartitionKey,
     !.RowKey = entry.RowKey,
     !.p3 = entry.p3,
     !.etag = entry.etag,
     !.manifestCommitId = a.manifestCommitId,
     !.manifestRepo = IF Truthy(a.repository) THEN ToLowerCase(a.repository)
                      ELSE entry.manifestRepo]

\* entry of updateManifestCommitId: the queried entity itself, version
\* included, with two properties assigned.
ManifestCommitRow(entry, a) ==
  [entry EXCEPT
     !.manifestCommitId = a.manifestCommitId,
     !.manifestRepo = IF Truthy(a.repository) THEN ToLowerCase(a.repository)
                      ELSE @]

\* Mutant: the first entry that holds no manifestCommitId yet is the one
\* written.
WritesManifestCommitId_FirstUnset(es, a) ==
  LET unset == {i \in DOMAIN es : es[i].manifestCommitId = Undefined}
      at == IF unset = {} THEN 1
            ELSE CHOOSE i \in unset : \A j \in unset : i <= j
  IN <<[kind |-> "replace", entity |-> ManifestCommitRow(es[at], a)]>>

\* The writes updateManifestCommitId issues when it found entries.
WritesManifestCommitId(es, a) ==
  <<[kind |-> "replace", entity |-> ManifestCommitRow(es[1], a)]>>

\* ------------------------------------------------------ the awaited writes
\* Whether the table accepts the write w; tableUp is whether the table
\* answers at all.
Accepted(st, w, tableUp) ==
  /\ tableUp
  /\ IF w.kind = "insert" THEN InsertOk(st, w.entity)
     ELSE ReplaceOk(st, w.entity)

Apply(st, w) ==
  IF w.kind = "insert" THEN insertToTable(st, w.entity)
  ELSE updateEntryInTable(st, w.entity)

\* Runs the writes ws in order, each awaited: the first one the table
\* rejects throws, and the rest are not reached.  <<store, number written,
\* rejected>>.
RECURSIVE RunWrites(_, _, _, _)
\* Mutant: a write the table never confirmed is applied all the same.
RunWrites_AppliedUnconfirmed(st, ws, tableUp, n) ==
  IF ws = <<>> THEN <<st, n, FALSE>>
  ELSE IF Accepted(st, Head(ws), tableUp)
       THEN RunWrites(Apply(st, Head(ws)), Tail(ws), tableUp, n + 1)
       ELSE IF Accepted(st, Head(ws), TRUE)
            THEN <<Apply(st, Head(ws)), n, TRUE>>
            ELSE <<st, n, TRUE>>

RunWrites(st, ws, tableUp, n) ==
  IF ws = <<>> THEN <<st, n, FALSE>>
  ELSE IF Accepted(st, Head(ws), tableUp)
       THEN RunWrites(Apply(st, Head(ws)), Tail(ws), tableUp, n + 1)
       ELSE <<st, n, TRUE>>

\* The rest of a resolver call after its last query: the writes, then the
\* return of the last entity written or the rejection.
Finish(p, ws, tableUp) ==
  LET r == RunWrites(store, ws, tableUp, 0)
  IN /\ store' = r[1]
     /\ writes' = [writes EXCEPT ![p] = @ + r[2]]
     /\ storeErrors' = [storeErrors EXCEPT ![p] = @ + (IF r[3] THEN 1 ELSE 0)]
     /\ pc' = [pc EXCEPT ![p] = IF r[3] THEN "failed" ELSE "done"]
     /\ ret' = [ret EXCEPT ![p] = IF r[3] THEN NoEntry ELSE ws[Len(ws)].entity]
     /\ before' = [before EXCEPT ![p] = store]
     /\ UNCHANGED selfTest

\* ---------------------------------------------------------------- actions
\* No call has finished without its caller having taken the result.
Quiet == \A q \in Procs : pc[q] \notin {"done", "failed"}

\* Caller p is at position at of its call and may take a step.
At(p, at) == Quiet /\ pc[p] = at

StartCall(p, name, a) ==
  /\ At(p, "idle")
  /\ callsLeft > 0
  /\ callsLeft' = callsLeft - 1
  /\ op' = [op EXCEPT ![p] = name]
  /\ args' = [args EXCEPT ![p] = a]
  /\ UNCHANGED command

\* The call of p sends findMatchingDeployments(filterName, filterValue) and
\* gets es back, or nothing when the table is down.
Queried(p, filterName, filterValue, es, tableUp) ==
  queries' = [queries EXCEPT ![p] =
                Append(@, [filterName |-> filterName,
                           filterValue |-> filterValue,
                           found |-> IF tableUp THEN Len(es) ELSE 0 - 1])]

\* Mutant: a failed query taken for an empty result.
Query_SwallowError(p, es, tableUp, next) ==
  /\ entries' = [entries EXCEPT ![p] = IF tableUp THEN es ELSE <<>>]
  /\ pc' = [pc EXCEPT ![p] = next]
  /\ storeErrors' = [storeErrors EXCEPT ![p] = @ + (IF tableUp THEN 0 ELSE 1)]
  /\ UNCHANGED <<store, writes, ret, before, selfTest>>

\* A query: the entries on success, a rejection when the table is down.
Query(p, es, tableUp, next) ==
  /\ entries' = [entries EXCEPT ![p] = IF tableUp THEN es ELSE <<>>]
  /\ pc' = [pc EXCEPT ![p] = IF tableUp THEN next ELSE "failed"]
  /\ storeErrors' = [storeErrors EXCEPT ![p] = @ + (IF tableUp THEN 0 ELSE 1)]
  /\ before' = [before EXCEPT ![p] = IF tableUp THEN @ ELSE store]
  /\ UNCHANGED <<store, writes, ret, selfTest>>

addSrcToACRPipeline(p, a, rowKey, tableUp) ==
  /\ StartCall(p, "stage1", a)
  /\ Finish(p, <<[kind |-> "insert", entity |-> SrcToACRRow(a, rowKey)]>>,
            tableUp)
  /\ UNCHANGED <<entries, queries>>

updateACRToHLDPipeline(p, a, tableUp) ==
  /\ StartCall(p, "stage2", a)
  /\ LET es == findMatchingDeployments(store, a.partitionKey, "imageTag",
                                       a.imageTag)
     IN /\ Query(p, es, tableUp, "stage2_write")
        /\ Queried(p, "imageTag", a.imageTag, es, tableUp)

updateACRToHLDPipelineWrite(p, rowKey, tableUp) ==
  /\ At(p, "stage2_write")
  /\ Finish(p, WritesACRToHLD(entries[p], args[p], rowKey), tableUp)
  /\ UNCHANGED <<op, args, entries, callsLeft, queries, command>>

updateHLDToManifestPipeline(p, a, tableUp) ==
  /\ StartCall(p, "stage3", a)
  /\ LET es == findMatchingDeployments(store, a.partitionKey, "hldCommitId",
                                       a.hldCommitId)
     IN /\ Query(p, es, tableUp,
                 IF QueriesByPr(es, a) THEN "stage3_by_pr" ELSE "stage3_write")
        /\ Queried(p, "hldCommitId", a.hldCommitId, es, tableUp)

updateHLDToManifestPipelineByPr(p, tableUp) ==
  /\ At(p, "stage3_by_pr")
  /\ LET es == findMatchingDeployments(store, args[p].partitionKey, "pr",
                                       args[p].pr)
     IN /\ Query(p, es, tableUp, "stage3_write")
        /\ Queried(p, "pr", args[p].pr, es, tableUp)
  /\ UNCHANGED <<op, args, callsLeft, command>>

updateHLDtoManifestHelper(p, rowKey, tableUp) ==
  /\ At(p, "stage3_write")
  /\ Finish(p, WritesHLDtoManifest(entries[p], args[p], rowKey), tableUp)
  /\ UNCHANGED <<op, args, entries, callsLeft, queries, command>>

updateManifestCommitId(p, a, tableUp) ==
  /\ StartCall(p, "finalizer", a)
  /\ LET es == findMatchingDeployments(store, a.partitionKey, "p3",
                                       a.pipelineId)
     IN /\ Query(p, es, tableUp, "finalizer_write")
        /\ Queried(p, "p3", a.pipelineId, es, tableUp)

updateManifestCommitIdWrite(p, tableUp) ==
  /\ At(p, "finalizer_write")
  /\ Len(entries[p]) > 0
  /\ Finish(p, WritesManifestCommitId(entries[p], args[p]), tableUp)
  /\ UNCHANGED <<op, args, entries, callsLeft, queries, command>>

\* Mutant: with no entry found, a synthetic row is inserted as stage 3
\* would.
updateManifestCommitIdThrow_Inserts(p) ==
  /\ At(p, "finalizer_write")
  /\ Len(entries[p]) = 0
  /\ \E rowKey \in RowKeys :
       Finish(p, <<[kind |-> "insert",
                    entity |-> NewRowHLDtoManifest(args[p], rowKey)]>>, TRUE)
  /\ UNCHANGED <<op, args, entries, callsLeft, queries, command>>

\* throw new Error("No manifest generation found ..."): no table access.
updateManifestCommitIdThrow(p) ==
  /\ At(p, "finalizer_write")
  /\ Len(entries[p]) = 0
  /\ pc' = [pc EXCEPT ![p] = "failed"]
  /\ before' = [before EXCEPT ![p] = store]
  /\ UNCHANGED <<store, op, args, entries, ret, writes, storeErrors, callsLeft,
                 queries, selfTest, command>>

\* The caller takes the result; the process is free for its next call.
Return(p) ==
  /\ pc[p] \in {"done", "failed"}
  /\ pc' = [pc EXCEPT ![p] = "idle"]
  /\ op' = [op EXCEPT ![p] = "none"]
  /\ args' = [args EXCEPT ![p] = NoArgs]
  /\ entries' = [entries EXCEPT ![p] = <<>>]
  /\ ret' = [ret EXCEPT ![p] = NoEntry]
  /\ writes' = [writes EXCEPT ![p] = 0]
  /\ storeErrors' = [storeErrors EXCEPT ![p] = 0]
  /\ before' = [before EXCEPT ![p] = {}]
  /\ queries' = [queries EXCEPT ![p] = <<>>]
  /\ selfTest' = [selfTest EXCEPT ![p] = NoSelfTest]
  /\ UNCHANGED <<store, callsLeft, command>>

Stage1Args ==
  {[NoArgs EXCEPT !.partitionKey = k, !.pipelineId = i, !.imageTag = t,
                  !.serviceName = s, !.commitId = c, !.repository = u] :
     k \in PartitionKeys, i \in BuildIds, t \in ImageTags, s \in Services,
     c \in CommitIds, u \in SourceRepos}

Stage2Args ==
  {[NoArgs EXCEPT !.partitionKey = k, !.pipelineId = i, !.imageTag = t,
                  !.hldCommitId = h, !.env = e, !.pr = r, !.repository = u] :
     k \in PartitionKeys, i \in ReleaseIds, t \in ImageTags,
     h \in ReleaseHldCommitIds, e \in Envs, r \in PullRequests,
     u \in HldRepos}

Stage3Args ==
  {[NoArgs EXCEPT !.partitionKey = k, !.hldCommitId = h, !.pipelineId = i,
                  !.manifestCommitId = m, !.pr = r, !.repository = u] :
     k \in PartitionKeys, h \in ManifestHldCommitIds, i \in ManifestBuildIds,
     m \in ManifestCommitIds, r \in PullRequests, u \in ManifestRepos}

FinalizerArgs ==
  {[NoArgs EXCEPT !.partitionKey = k, !.pipelineId = i,
                  !.manifestCommitId = m, !.repository = u] :
     k \in PartitionKeys, i \in ManifestBuildIds, m \in FinalCommitIds,
     u \in ManifestRepos}

\* A finished call is handed back before any other step is taken (Quiet in
\* At): Return touches only the caller's own position, which no other step
\* reads, so no interleaving of table accesses is lost.
Next ==
  \/ \E p \in Procs, a \in Stage1Args, rowKey \in RowKeys, tableUp \in BOOLEAN :
       addSrcToACRPipeline(p, a, rowKey, tableUp)
  \/ \E p \in Procs, a \in Stage2Args, tableUp \in BOOLEAN :
       updateACRToHLDPipeline(p, a, tableUp)
  \/ \E p \in Procs, rowKey \in RowKeys, tableUp \in BOOLEAN :
       updateACRToHLDPipelineWrite(p, rowKey, tableUp)
  \/ \E p \in Procs, a \in Stage3Args, tableUp \in BOOLEAN :
       updateHLDToManifestPipeline(p, a, tableUp)
  \/ \E p \in Procs, tableUp \in BOOLEAN :
       updateHLDToManifestPipelineByPr(p, tableUp)
  \/ \E p \in Procs, rowKey \in RowKeys, tableUp \in BOOLEAN :
       updateHLDtoManifestHelper(p, rowKey, tableUp)
  \/ \E p \in Procs, a \in FinalizerArgs, tableUp \in BOOLEAN :
       updateManifestCommitId(p, a, tableUp)
  \/ \E p \in Procs, tableUp \in BOOLEAN :
       updateManifestCommitIdWrite(p, tableUp)
  \/ \E p \in Procs : updateManifestCommitIdThrow(p)
  \/ \E p \in Procs : Return(p)

Spec == Init /\ [][Next]_vars

\* ----------------------------------------------- releases of one image tag
\* One caller issuing stage-1 and stage-2 events for a single image tag, the
\* table answering every access: a longer run over fewer inputs, in which
\* several candidates with different histories meet one stage-2 event.
ReleaseBuildArgs ==
  {[NoArgs EXCEPT !.partitionKey = <<"k">>, !.pipelineId = <<"B">>,
                  !.imageTag = <<"t">>, !.serviceName = <<"S">>,
                  !.commitId = <<"C">>, !.repository = u] :
     u \in SourceRepos}

ReleaseArgs ==
  {[NoArgs EXCEPT !.partitionKey = <<"k">>, !.pipelineId = i,
                  !.imageTag = <<"t">>, !.hldCommitId = <<"h">>, !.env = e] :
     i \in ReleaseIds, e \in Envs}

InitRelease ==
  /\ store = {}
  /\ pc = [p \in Procs |-> "idle"]
  /\ op = [p \in Procs |-> "none"]
  /\ args = [p \in Procs |-> NoArgs]
  /\ entries = [p \in Procs |-> <<>>]
  /\ ret = [p \in Procs |-> NoEntry]
  /\ writes = [p \in Procs |-> 0]
  /\ storeErrors = [p \in Procs |-> 0]
  /\ callsLeft = MaxReleaseCalls
  /\ before = [p \in Procs |-> {}]
  /\ queries = [p \in Procs |-> <<>>]
  /\ selfTest = [p \in Procs |-> NoSelfTest]
  /\ command = [p \in Procs |-> NoCommand]

NextRelease ==
  \/ \E a \in ReleaseBuildArgs, rowKey \in RowKeys :
       addSrcToACRPipeline(1, a, rowKey, TRUE)
  \/ \E a \in ReleaseArgs : updateACRToHLDPipeline(1, a, TRUE)
  \/ \E rowKey \in RowKeys : updateACRToHLDPipelineWrite(1, rowKey, TRUE)
  \/ Return(1)

SpecRelease == InitRelease /\ [][NextRelease]_vars

\* ------------------------------------------- a build, then its releases
\* Stage-1 and stage-2 events of one image tag, the release naming its
\* environment and HLD commit in either letter case.
CaseBuildArgs ==
  {[NoArgs EXCEPT !.partitionKey = <<"k">>, !.pipelineId = <<"B">>,
                  !.imageTag = <<"T">>, !.serviceName = <<"S">>,
                  !.commitId = <<"C">>]}

CaseReleaseArgs ==
  {[NoArgs EXCEPT !.partitionKey = <<"k">>, !.pipelineId = <<"p">>,
                  !.imageTag = <<"T">>, !.hldCommitId = h, !.env = e] :
     h \in {<<"h">>, <<"H">>}, e \in {<<"e">>, <<"E">>}}

InitCase ==
  /\ store = {}
  /\ pc = [p \in Procs |-> "idle"]
  /\ op = [p \in Procs |-> "none"]
  /\ args = [p \in Procs |-> NoArgs]
  /\ entries = [p \in Procs |-> <<>>]
  /\ ret = [p \in Procs |-> NoEntry]
  /\ writes = [p \in Procs |-> 0]
  /\ storeErrors = [p \in Procs |-> 0]
  /\ callsLeft = MaxCaseCalls
  /\ before = [p \in Procs |-> {}]
  /\ queries = [p \in Procs |-> <<>>]
  /\ selfTest = [p \in Procs |-> NoSelfTest]
  /\ command = [p \in Procs |-> NoCommand]

NextCase ==
  \/ \E p \in Procs, a \in CaseBuildArgs, rowKey \in RowKeys,
        tableUp \in BOOLEAN :
       addSrcToACRPipeline(p, a, rowKey, tableUp)
  \/ \E p \in Procs, a \in CaseReleaseArgs, tableUp \in BOOLEAN :
       updateACRToHLDPipeline(p, a, tableUp)
  \/ \E p \in Procs, rowKey \in RowKeys, tableUp \in BOOLEAN :
       updateACRToHLDPipelineWrite(p, rowKey, tableUp)
  \/ \E p \in Procs : Return(p)

SpecCase == InitCase /\ [][NextCase]_vars

\* ------------------------------------- a release, then manifest generations
\* Stage-2 and stage-3 events of one HLD commit, handled one at a time with
\* the table answering: four calls, so that a stage-3 event meets several
\* candidates with different histories, and every optional stage-3 input
\* given or not.
ManifestReleaseArgs ==
  {[NoArgs EXCEPT !.partitionKey = <<"k">>, !.pipelineId = <<"p">>,
                  !.imageTag = <<"t">>, !.hldCommitId = <<"h">>,
                  !.env = <<"e">>, !.pr = r] :
     r \in {Undefined, <<"r">>}}

ManifestArgs ==
  {[NoArgs EXCEPT !.partitionKey = <<"k">>, !.hldCommitId = h,
                  !.pipelineId = i, !.manifestCommitId = m, !.pr = r,
                  !.repository = u] :
     h \in {<<"h">>, <<"H">>}, i \in {<<"q">>, <<"Q">>},
     m \in {Undefined, <<"M">>}, r \in {Undefined, <<"r">>},
     u \in {Undefined, <<"U">>}}

InitManifest ==
  /\ store = {}
  /\ pc = [p \in Procs |-> "idle"]
  /\ op = [p \in Procs |-> "none"]
  /\ args = [p \in Procs |-> NoArgs]
  /\ entries = [p \in Procs |-> <<>>]
  /\ ret = [p \in Procs |-> NoEntry]
  /\ writes = [p \in Procs |-> 0]
  /\ storeErrors = [p \in Procs |-> 0]
  /\ callsLeft = MaxManifestCalls
  /\ before = [p \in Procs |-> {}]
  /\ queries = [p \in Procs |-> <<>>]
  /\ selfTest = [p \in Procs |-> NoSelfTest]
  /\ command = [p \in Procs |-> NoCommand]

NextManifest ==
  \/ \E a \in ManifestReleaseArgs : updateACRToHLDPipeline(1, a, TRUE)
  \/ \E rowKey \in RowKeys : updateACRToHLDPipelineWrite(1, rowKey, TRUE)
  \/ \E a \in ManifestArgs : updateHLDToManifestPipeline(1, a, TRUE)
  \/ updateHLDToManifestPipelineByPr(1, TRUE)
  \/ \E rowKey \in RowKeys : updateHLDtoManifestHelper(1, rowKey, TRUE)
  \/ Return(1)

SpecManifest == InitManifest /\ [][NextManifest]_vars

\* ------------------------------- manifest generations, then their commits
\* Stage-3 events of one HLD commit and finalizer events for their run id,
\* by concurrent callers: the run id in either letter case, the manifest
\* commit id in two spellings, the repository given or not.
FinalizeManifestArgs ==
  {[NoArgs EXCEPT !.partitionKey = <<"k">>, !.hldCommitId = <<"h">>,
                  !.pipelineId = i] :
     i \in {<<"q">>, <<"Q">>}}

FinalizeArgs ==
  {[NoArgs EXCEPT !.partitionKey = <<"k">>, !.pipelineId = i,
                  !.manifestCommitId = m, !.repository = u] :
     i \in {<<"q">>, <<"Q">>}, m \in {<<"M">>, <<"m">>},
     u \in {Undefined, <<"U">>}}

InitFinalize ==
  /\ store = {}
  /\ pc = [p \in Procs |-> "idle"]
  /\ op = [p \in Procs |-> "none"]
  /\ args = [p \in Procs |-> NoArgs]
  /\ entries = [p \in Procs |-> <<>>]
  /\ ret = [p \in Procs |-> NoEntry]
  /\ writes = [p \in Procs |-> 0]
  /\ storeErrors = [p \in Procs |-> 0]
  /\ callsLeft = MaxFinalizeCalls
  /\ before = [p \in Procs |-> {}]
  /\ queries = [p \in Procs |-> <<>>]
  /\ selfTest = [p \in Procs |-> NoSelfTest]
  /\ command = [p \in Procs |-> NoCommand]

NextFinalize ==
  \/ \E p \in Procs, a \in FinalizeManifestArgs, tableUp \in BOOLEAN :
       updateHLDToManifestPipeline(p, a, tableUp)
  \/ \E p \in Procs, rowKey \in RowKeys, tableUp \in BOOLEAN :
       updateHLDtoManifestHelper(p, rowKey, tableUp)
  \/ \E p \in Procs, a \in FinalizeArgs, tableUp \in BOOLEAN :
       updateManifestCommitId(p, a, tableUp)
  \/ \E p \in Procs, tableUp \in BOOLEAN :
       updateManifestCommitIdWrite(p, tableUp)
  \/ \E p \in Procs : updateManifestCommitIdThrow(p)
  \/ \E p \in Procs : Return(p)

SpecFinalize == InitFinalize /\ [][NextFinalize]_vars

\* ------------------------------------------ concurrent releases of one tag
\* Stage-2 events of one image tag for two environments, by concurrent
\* callers: the first leaves a row, the later ones find it and do not match.
RaceArgs ==
  {[NoArgs EXCEPT !.partitionKey = <<"k">>, !.pipelineId = <<"p">>,
                  !.imageTag = <<"t">>, !.hldCommitId = <<"h">>, !.env = e] :
     e \in {<<"e">>, <<"f">>}}

InitRace ==
  /\ store = {}
  /\ pc = [p \in Procs |-> "idle"]
  /\ op = [p \in Procs |-> "none"]
  /\ args = [p \in Procs |-> NoArgs]
  /\ entries = [p \in Procs |-> <<>>]
  /\ ret = [p \in Procs |-> NoEntry]
  /\ writes = [p \in Procs |-> 0]
  /\ storeErrors = [p \in Procs |-> 0]
  /\ callsLeft = MaxRaceCalls
  /\ before = [p \in Procs |-> {}]
  /\ queries = [p \in Procs |-> <<>>]
  /\ selfTest = [p \in Procs |-> NoSelfTest]
  /\ command = [p \in Procs |-> NoCommand]

NextRace ==
  \/ \E p \in Procs, a \in RaceArgs, tableUp \in BOOLEAN :
       updateACRToHLDPipeline(p, a, tableUp)
  \/ \E p \in Procs, rowKey \in RowKeys, tableUp \in BOOLEAN :
       updateACRToHLDPipelineWrite(p, rowKey, tableUp)
  \/ \E p \in Procs : Return(p)

SpecRace == InitRace /\ [][NextRace]_vars

\* ------------------------------------------------- a stage-2 event twice
\* The caller, holding the result of a stage-2 call, invokes
\* updateACRToHLDPipeline again with the same arguments: the query of the
\* second call.
updateACRToHLDPipelineAgain(p, tableUp) ==
  /\ pc[p] = "done"
  /\ op[p] = "stage2"
  /\ callsLeft > 0
  /\ callsLeft' = callsLeft - 1
  /\ op' = [op EXCEPT ![p] = "stage2_again"]
  /\ LET es == findMatchingDeployments(store, args[p].partitionKey, "imageTag",
                                       args[p].imageTag)
     IN /\ entries' = [entries EXCEPT ![p] = IF tableUp THEN es ELSE <<>>]
        /\ queries' = [queries EXCEPT ![p] =
                         <<[filterName |-> "imageTag",
                            filterValue |-> args[p].imageTag,
                            found |-> IF tableUp THEN Len(es) ELSE 0 - 1]>>]
  /\ pc' = [pc EXCEPT ![p] = IF tableUp THEN "stage2_write" ELSE "failed"]
  /\ ret' = [ret EXCEPT ![p] = NoEntry]
  /\ writes' = [writes EXCEPT ![p] = 0]
  /\ storeErrors' = [storeErrors EXCEPT ![p] = IF tableUp THEN 0 ELSE 1]
  /\ before' = [before EXCEPT ![p] = store]
  /\ UNCHANGED <<store, args, selfTest, command>>

\* Stage-1 and stage-2 events of one image tag by one caller, each value of
\* the stage-2 event in either letter case, and each stage-2 event possibly
\* delivered twice.
RedeliverBuildArgs ==
  {[NoArgs EXCEPT !.partitionKey = <<"k">>, !.pipelineId = <<"b">>,
                  !.imageTag = t, !.serviceName = <<"s">>,
                  !.commitId = <<"c">>] :
     t \in {<<"t">>, <<"T">>}}

RedeliverArgs ==
  {[NoArgs EXCEPT !.partitionKey = <<"k">>, !.pipelineId = i, !.imageTag = t,
                  !.hldCommitId = h, !.env = e] :
     i \in {<<"p">>, <<"P">>}, t \in {<<"t">>, <<"T">>},
     h \in {<<"h">>, <<"H">>}, e \in {<<"e">>, <<"E">>}}

InitRedeliver ==
  /\ store = {}
  /\ pc = [p \in Procs |-> "idle"]
  /\ op = [p \in Procs |-> "none"]
  /\ args = [p \in Procs |-> NoArgs]
  /\ entries = [p \in Procs |-> <<>>]
  /\ ret = [p \in Procs |-> NoEntry]
  /\ writes = [p \in Procs |-> 0]
  /\ storeErrors = [p \in Procs |-> 0]
  /\ callsLeft = MaxRedeliverCalls
  /\ before = [p \in Procs |-> {}]
  /\ queries = [p \in Procs |-> <<>>]
  /\ selfTest = [p \in Procs |-> NoSelfTest]
  /\ command = [p \in Procs |-> NoCommand]

NextRedeliver ==
  \/ \E a \in RedeliverBuildArgs, rowKey \in RowKeys :
       addSrcToACRPipeline(1, a, rowKey, TRUE)
  \/ \E a \in RedeliverArgs, tableUp \in BOOLEAN :
       updateACRToHLDPipeline(1, a, tableUp)
  \/ \E tableUp \in BOOLEAN : updateACRToHLDPipelineAgain(1, tableUp)
  \/ \E rowKey \in RowKeys, tableUp \in BOOLEAN :
       updateACRToHLDPipelineWrite(1, rowKey, tableUp)
  \/ Return(1)

SpecRedeliver == InitRedeliver /\ [][NextRedeliver]_vars

\* --------------------------------------- a release, then its manifest run
\* Stage-2 and stage-3 events of two HLD commits, one named in upper case
\* and one in lower case by both stages, handled one at a time with the
\* table answering.
CorrelateReleaseArgs ==
  {[NoArgs EXCEPT !.partitionKey = <<"k">>, !.pipelineId = <<"p">>,
                  !.imageTag = <<"t">>, !.hldCommitId = h, !.env = <<"e">>,
                  !.pr = r] :
     h \in {<<"H">>, <<"g">>}, r \in {Undefined, <<"r">>}}

CorrelateArgs ==
  {[NoArgs EXCEPT !.partitionKey = <<"k">>, !.hldCommitId = h,
                  !.pipelineId = <<"q">>, !.pr = r] :
     h \in {<<"H">>, <<"g">>}, r \in {Undefined, <<"r">>}}

InitCorrelate ==
  /\ store = {}
  /\ pc = [p \in Procs |-> "idle"]
  /\ op = [p \in Procs |-> "none"]
  /\ args = [p \in Procs |-> NoArgs]
  /\ entries = [p \in Procs |-> <<>>]
  /\ ret = [p \in Procs |-> NoEntry]
  /\ writes = [p \in Procs |-> 0]
  /\ storeErrors = [p \in Procs |-> 0]
  /\ callsLeft = MaxCorrelateCalls
  /\ before = [p \in Procs |-> {}]
  /\ queries = [p \in Procs |-> <<>>]
  /\ selfTest = [p \in Procs |-> NoSelfTest]
  /\ command = [p \in Procs |-> NoCommand]

NextCorrelate ==
  \/ \E a \in CorrelateReleaseArgs : updateACRToHLDPipeline(1, a, TRUE)
  \/ \E rowKey \in RowKeys : updateACRToHLDPipelineWrite(1, rowKey, TRUE)
  \/ \E a \in CorrelateArgs : updateHLDToManifestPipeline(1, a, TRUE)
  \/ updateHLDToManifestPipelineByPr(1, TRUE)
  \/ \E rowKey \in RowKeys : updateHLDtoManifestHelper(1, rowKey, TRUE)
  \/ Return(1)

SpecCorrelate == InitCorrelate /\ [][NextCorrelate]_vars

\* ------------------------------------- a manifest run, then its commit id
\* Stage-3 and finalizer events of two manifest runs, one named in upper
\* case and one in lower case by both, handled one at a time with the table
\* answering.
CommitManifestArgs ==
  {[NoArgs EXCEPT !.partitionKey = <<"k">>, !.hldCommitId = <<"h">>,
                  !.pipelineId = i] :
     i \in {<<"Q">>, <<"w">>}}

CommitArgs ==
  {[NoArgs EXCEPT !.partitionKey = <<"k">>, !.pipelineId = i,
                  !.manifestCommitId = <<"m">>] :
     i \in {<<"Q">>, <<"w">>}}

InitCommit ==
  /\ store = {}
  /\ pc = [p \in Procs |-> "idle"]
  /\ op = [p \in Procs |-> "none"]
  /\ args = [p \in Procs |-> NoArgs]
  /\ entries = [p \in Procs |-> <<>>]
  /\ ret = [p \in Procs |-> NoEntry]
  /\ writes = [p \in Procs |-> 0]
  /\ storeErrors = [p \in Procs |-> 0]
  /\ callsLeft = MaxCommitCalls
  /\ before = [p \in Procs |-> {}]
  /\ queries = [p \in Procs |-> <<>>]
  /\ selfTest = [p \in Procs |-> NoSelfTest]
  /\ command = [p \in Procs |-> NoCommand]

NextCommit ==
  \/ \E a \in CommitManifestArgs : updateHLDToManifestPipeline(1, a, TRUE)
  \/ \E rowKey \in RowKeys : updateHLDtoManifestHelper(1, rowKey, TRUE)
  \/ \E a \in CommitArgs : updateManifestCommitId(1, a, TRUE)
  \/ updateManifestCommitIdWrite(1, TRUE)
  \/ updateManifestCommitIdThrow(1)
  \/ Return(1)

SpecCommit == InitCommit /\ [][NextCommit]_vars

\* ------------------------------------------ releases with no build record
\* Stage-2 events of two image tags, one named in upper case and one in lower
\* case, with no stage-1 event before them, handled one at a time with the
\* table answering.
DegradedArgs ==
  {[NoArgs EXCEPT !.partitionKey = <<"k">>, !.pipelineId = <<"p">>,
                  !.imageTag = t, !.hldCommitId = <<"h">>, !.env = e] :
     t \in {<<"T">>, <<"v">>}, e \in {<<"e">>, <<"f">>}}

InitDegraded ==
  /\ store = {}
  /\ pc = [p \in Procs |-> "idle"]
  /\ op = [p \in Procs |-> "none"]
  /\ args = [p \in Procs |-> NoArgs]
  /\ entries = [p \in Procs |-> <<>>]
  /\ ret = [p \in Procs |-> NoEntry]
  /\ writes = [p \in Procs |-> 0]
  /\ storeErrors = [p \in Procs |-> 0]
  /\ callsLeft = MaxDegradedCalls
  /\ before = [p \in Procs |-> {}]
  /\ queries = [p \in Procs |-> <<>>]
  /\ selfTest = [p \in Procs |-> NoSelfTest]
  /\ command = [p \in Procs |-> NoCommand]

NextDegraded ==
  \/ \E a \in DegradedArgs : updateACRToHLDPipeline(1, a, TRUE)
  \/ \E rowKey \in RowKeys : updateACRToHLDPipelineWrite(1, rowKey, TRUE)
  \/ Return(1)

SpecDegraded == InitDegraded /\ [][NextDegraded]_vars

\* ------------------------------------------------- two tables' partitions
\* Events of one deployment arriving for two partition keys, from two
\* callers, the table possibly failing.
TwoPartitions == {<<"k">>, <<"j">>}

PartitionBuildArgs ==
  {[NoArgs EXCEPT !.partitionKey = k, !.pipelineId = <<"b">>,
                  !.imageTag = <<"t">>, !.serviceName = <<"s">>,
                  !.commitId = <<"c">>] :
     k \in TwoPartitions}

PartitionReleaseArgs ==
  {[NoArgs EXCEPT !.partitionKey = k, !.pipelineId = <<"p">>,
                  !.imageTag = <<"t">>, !.hldCommitId = <<"h">>,
                  !.env = e] :
     k \in TwoPartitions, e \in {<<"e">>, <<"f">>}}

PartitionManifestArgs ==
  {[NoArgs EXCEPT !.partitionKey = k, !.hldCommitId = <<"h">>,
                  !.pipelineId = i] :
     k \in TwoPartitions, i \in {<<"q">>, <<"w">>}}

PartitionCommitArgs ==
  {[NoArgs EXCEPT !.partitionKey = k, !.pipelineId = <<"q">>,
                  !.manifestCommitId = <<"m">>] :
     k \in TwoPartitions}

InitPartition ==
  /\ store = {}
  /\ pc = [p \in Procs |-> "idle"]
  /\ op = [p \in Procs |-> "none"]
  /\ args = [p \in Procs |-> NoArgs]
  /\ entries = [p \in Procs |-> <<>>]
  /\ ret = [p \in Procs |-> NoEntry]
  /\ writes = [p \in Procs |-> 0]
  /\ storeErrors = [p \in Procs |-> 0]
  /\ callsLeft = MaxPartitionCalls
  /\ before = [p \in Procs |-> {}]
  /\ queries = [p \in Procs |-> <<>>]
  /\ selfTest = [p \in Procs |-> NoSelfTest]
  /\ command = [p \in Procs |-> NoCommand]

NextPartition ==
  \/ \E p \in Procs, a \in PartitionBuildArgs, rowKey \in RowKeys,
        tableUp \in BOOLEAN :
       addSrcToACRPipeline(p, a, rowKey, tableUp)
  \/ \E p \in Procs, a \in PartitionReleaseArgs, tableUp \in BOOLEAN :
       updateACRToHLDPipeline(p, a, tableUp)
  \/ \E p \in Procs, rowKey \in RowKeys, tableUp \in BOOLEAN :
       updateACRToHLDPipelineWrite(p, rowKey, tableUp)
  \/ \E p \in Procs, a \in PartitionManifestArgs, tableUp \in BOOLEAN :
       updateHLDToManifestPipeline(p, a, tableUp)
  \/ \E p \in Procs, rowKey \in RowKeys, tableUp \in BOOLEAN :
       updateHLDtoManifestHelper(p, rowKey, tableUp)
  \/ \E p \in Procs, a \in PartitionCommitArgs, tableUp \in BOOLEAN :
       updateManifestCommitId(p, a, tableUp)
  \/ \E p \in Procs, tableUp \in BOOLEAN :
       updateManifestCommitIdWrite(p, tableUp)
  \/ \E p \in Procs : updateManifestCommitIdThrow(p)
  \/ \E p \in Procs : Return(p)

SpecPartition == InitPartition /\ [][NextPartition]_vars

\* ------------------------------------------------------------ the self-test
\* validate.ts: const service = "spk-self-test".
service == <<"s", "s">>

\* Math.floor(Math.random() * 1000).toString(), cut to two values.
SelfTestBuildIds == {<<"1">>, <<"2">>}

\* introspection.azure.partition_key of the configuration.
SelfTestPartitionKey == <<"k">>

\* The arguments of writeSelfTestData's call of addSrcToACRPipeline:
\* (p1Id, "spk-test-123", service, "6nbe" + buildId).
SelfTestBuildArgs(buildId) ==
  [NoArgs EXCEPT !.partitionKey = SelfTestPartitionKey,
                 !.pipelineId = buildId,
                 !.imageTag = <<"t">>,
                 !.serviceName = service,
                 !.commitId = <<"n">> \o buildId]

\* The arguments of writeSelfTestData's call of updateACRToHLDPipeline:
\* (p2Id, "spk-test-123", commitId, "SPK-TEST").
SelfTestReleaseArgs(buildId) ==
  [NoArgs EXCEPT !.partitionKey = SelfTestPartitionKey,
                 !.pipelineId = buildId,
                 !.imageTag = <<"t">>,
                 !.hldCommitId = <<"n">> \o buildId,
                 !.env = <<"S", "T">>]

\* The awaited writes of one resolver call inside writeSelfTestData: on a
\* rejection the catch block throws, otherwise the self-test goes on at next.
SelfTestWrites(p, ws, tableUp, next) ==
  LET r == RunWrites(store, ws, tableUp, 0)
  IN /\ store' = r[1]
     /\ writes' = [writes EXCEPT ![p] = @ + r[2]]
     /\ storeErrors' = [storeErrors EXCEPT ![p] = @ + (IF r[3] THEN 1 ELSE 0)]
     /\ pc' = [pc EXCEPT ![p] = IF r[3] THEN "failed" ELSE next]
     /\ before' = [before EXCEPT ![p] = store]

\* writeSelfTestData up to the end of its stage-1 call.
writeSelfTestData(p, buildId, rowKey, tableUp) ==
  /\ StartCall(p, "selftest", SelfTestBuildArgs(buildId))
  /\ selfTest' = [selfTest EXCEPT ![p] = [NoSelfTest EXCEPT !.buildId = buildId]]
  /\ SelfTestWrites(p, <<[kind |-> "insert",
                          entity |-> SrcToACRRow(SelfTestBuildArgs(buildId),
                                                 rowKey)]>>,
                    tableUp, "selftest_release")
  /\ UNCHANGED <<entries, ret, queries>>

\* The query of writeSelfTestData's stage-2 call.
writeSelfTestDataRelease(p, tableUp) ==
  /\ At(p, "selftest_release")
  /\ LET a == SelfTestReleaseArgs(selfTest[p].buildId)
         es == findMatchingDeployments(store, a.partitionKey, "imageTag",
                                       a.imageTag)
     IN /\ args' = [args EXCEPT ![p] = a]
        /\ Query(p, es, tableUp, "selftest_release_write")
        /\ Queried(p, "imageTag", a.imageTag, es, tableUp)
  /\ UNCHANGED <<op, callsLeft, command>>

\* The writes of writeSelfTestData's stage-2 call; it returns buildId.
writeSelfTestDataReleaseWrite(p, rowKey, tableUp) ==
  /\ At(p, "selftest_release_write")
  /\ SelfTestWrites(p, WritesACRToHLD(entries[p], args[p], rowKey), tableUp,
                    "selftest_find")
  /\ UNCHANGED <<op, args, entries, ret, callsLeft, queries, selfTest,
                 command>>

\* deleteSelfTestData's query by service.  A rejection is not caught; with
\* no entry the loop is empty and foundEntry, false, is returned.
deleteSelfTestData(p, tableUp) ==
  /\ At(p, "selftest_find")
  /\ LET es == findMatchingDeployments(store, SelfTestPartitionKey, "service",
                                       service)
     IN /\ entries' = [entries EXCEPT ![p] = IF tableUp THEN es ELSE <<>>]
        /\ pc' = [pc EXCEPT ![p] = IF ~tableUp THEN "failed"
                                   ELSE IF es = <<>> THEN "done"
                                   ELSE "selftest_delete"]
        /\ selfTest' = [selfTest EXCEPT ![p].isVerified =
                          IF tableUp /\ es = <<>> THEN "false" ELSE @]
        /\ Queried(p, "service", service, es, tableUp)
  /\ storeErrors' = [storeErrors EXCEPT ![p] = @ + (IF tableUp THEN 0 ELSE 1)]
  /\ before' = [before EXCEPT ![p] = store]
  /\ UNCHANGED <<store, op, args, ret, writes, callsLeft, command>>

\* One turn of deleteSelfTestData's loop: the p1 test, then the awaited
\* delete of the entry as queried.  A rejected delete returns false; after
\* the last entry foundEntry is returned.
deleteSelfTestDataEntry(p, tableUp) ==
  /\ At(p, "selftest_delete")
  /\ selfTest[p].deletes < Len(entries[p])
  /\ LET entry == entries[p][selfTest[p].deletes + 1]
         foundEntry == \/ selfTest[p].foundEntry
                       \/ Present(entry.p1) /\ entry.p1 = selfTest[p].buildId
         ok == tableUp /\ DeleteOk(store, entry)
         last == selfTest[p].deletes + 1 = Len(entries[p])
     IN /\ store' = IF ok THEN deleteFromTable(store, entry) ELSE store
        /\ selfTest' = [selfTest EXCEPT
                          ![p].foundEntry = foundEntry,
                          ![p].deletes = IF ok THEN @ + 1 ELSE @,
                          ![p].deleted = @ \cup (store \ store'),
                          ![p].isVerified =
                            IF ~ok THEN "false"
                            ELSE IF ~last THEN @
                            ELSE IF foundEntry THEN "true" ELSE "false"]
        /\ pc' = [pc EXCEPT ![p] = IF ok /\ ~last THEN @ ELSE "done"]
        /\ storeErrors' = [storeErrors EXCEPT ![p] = @ + (IF ok THEN 0 ELSE 1)]
  /\ before' = [before EXCEPT ![p] = store]
  /\ UNCHANGED <<op, args, entries, ret, writes, callsLeft, queries, command>>

InitSelfTest ==
  /\ store = {}
  /\ pc = [p \in Procs |-> "idle"]
  /\ op = [p \in Procs |-> "none"]
  /\ args = [p \in Procs |-> NoArgs]
  /\ entries = [p \in Procs |-> <<>>]
  /\ ret = [p \in Procs |-> NoEntry]
  /\ writes = [p \in Procs |-> 0]
  /\ storeErrors = [p \in Procs |-> 0]
  /\ callsLeft = MaxSelfTestCalls
  /\ before = [p \in Procs |-> {}]
  /\ queries = [p \in Procs |-> <<>>]
  /\ selfTest = [p \in Procs |-> NoSelfTest]
  /\ command = [p \in Procs |-> NoCommand]

NextSelfTest ==
  \/ \E p \in Procs, buildId \in SelfTestBuildIds, rowKey \in RowKeys,
        tableUp \in BOOLEAN :
       writeSelfTestData(p, buildId, rowKey, tableUp)
  \/ \E p \in Procs, tableUp \in BOOLEAN : writeSelfTestDataRelease(p, tableUp)
  \/ \E p \in Procs, rowKey \in RowKeys, tableUp \in BOOLEAN :
       writeSelfTestDataReleaseWrite(p, rowKey, tableUp)
  \/ \E p \in Procs, tableUp \in BOOLEAN : deleteSelfTestData(p, tableUp)
  \/ \E p \in Procs, tableUp \in BOOLEAN : deleteSelfTestDataEntry(p, tableUp)
  \/ \E p \in Procs : Return(p)

SpecSelfTest == InitSelfTest /\ [][NextSelfTest]_vars

\* ------------------------------------------------- the deployment command
\* lib/validator hasValue, as its test pins it: false for undefined, for ""
\* and for " ", true for " b ".
hasValue(s) == s # Undefined /\ \E i \in DOMAIN s : s[i] # " "

\* validateValues returns rather than throws.
validateValues(o) ==
  /\ hasValue(o.accessKey)
  /\ hasValue(o.name)
  /\ hasValue(o.partitionKey)
  /\ hasValue(o.tableName)

\* The arguments handlePipeline1 passes to addSrcToACRPipeline.
Pipeline1Args(o) ==
  [NoArgs EXCEPT !.partitionKey = o.partitionKey, !.pipelineId = o.p1,
                 !.imageTag = o.imageTag, !.serviceName = o.service,
                 !.commitId = o.commitId, !.repository = o.repository]

\* The arguments handlePipeline2 passes to updateACRToHLDPipeline.
Pipeline2Args(o) ==
  [NoArgs EXCEPT !.partitionKey = o.partitionKey, !.pipelineId = o.p2,
                 !.imageTag = o.imageTag, !.hldCommitId = o.hldCommitId,
                 !.env = o.env, !.pr = o.pr, !.repository = o.repository]

\* The arguments execute passes to updateHLDToManifestPipeline.
Pipeline3Args(o) ==
  [NoArgs EXCEPT !.partitionKey = o.partitionKey,
                 !.hldCommitId = o.hldCommitId, !.pipelineId = o.p3,
                 !.manifestCommitId = o.manifestCommitId, !.pr = o.pr,
                 !.repository = o.repository]

\* The arguments execute passes to updateManifestCommitId.
ManifestCommitArgs(o) ==
  [NoArgs EXCEPT !.partitionKey = o.partitionKey, !.pipelineId = o.p3,
                 !.manifestCommitId = o.manifestCommitId,
                 !.repository = o.repository]

\* A throw inside execute's try block before any resolver is called: the
\* catch block logs and calls exitFn(1).
CommandThrows(p, o, thrown) ==
  /\ command' = [command EXCEPT
                   ![p] = [opts |-> o, exits |-> <<1>>, thrown |-> thrown]]
  /\ pc' = [pc EXCEPT ![p] = "exited"]
  /\ before' = [before EXCEPT ![p] = store]
  /\ UNCHANGED <<store, op, args, entries, ret, writes, storeErrors, queries,
                 selfTest>>

\* execute calls the resolver name with the arguments a.
CallResolver(p, o, name, a) ==
  /\ command' = [command EXCEPT
                   ![p] = [opts |-> o, exits |-> <<>>, thrown |-> "none"]]
  /\ op' = [op EXCEPT ![p] = name]
  /\ args' = [args EXCEPT ![p] = a]

\* Mutant: the commit id is not among the values handlePipeline1 requires.
handlePipeline1_CommitIdOptional(p, o, rowKey, tableUp) ==
  IF ~hasValue(o.imageTag) \/ ~hasValue(o.service)
  THEN CommandThrows(p, o, "handlePipeline1")
  ELSE /\ CallResolver(p, o, "stage1", Pipeline1Args(o))
       /\ Finish(p, <<[kind |-> "insert",
                       entity |-> SrcToACRRow(Pipeline1Args(o), rowKey)]>>,
                 tableUp)
       /\ UNCHANGED <<entries, queries>>

handlePipeline1(p, o, rowKey, tableUp) ==
  IF ~hasValue(o.imageTag) \/ ~hasValue(o.commitId) \/ ~hasValue(o.service)
  THEN CommandThrows(p, o, "handlePipeline1")
  ELSE /\ CallResolver(p, o, "stage1", Pipeline1Args(o))
       /\ Finish(p, <<[kind |-> "insert",
                       entity |-> SrcToACRRow(Pipeline1Args(o), rowKey)]>>,
                 tableUp)
       /\ UNCHANGED <<entries, queries>>

handlePipeline2(p, o, tableUp) ==
  IF ~hasValue(o.hldCommitId) \/ ~hasValue(o.env) \/ ~hasValue(o.imageTag)
  THEN CommandThrows(p, o, "handlePipeline2")
  ELSE LET a == Pipeline2Args(o)
           es == findMatchingDeployments(store, a.partitionKey, "imageTag",
                                         a.imageTag)
       IN /\ CallResolver(p, o, "stage2", a)
          /\ Query(p, es, tableUp, "stage2_write")
          /\ Queried(p, "imageTag", a.imageTag, es, tableUp)

\* The option values a command is started with: each value absent or
\* given, the image tag also blank and the environment also empty.
CommandOpts ==
  {[NoOpts EXCEPT !.accessKey = <<"a">>, !.name = <<"a">>,
                  !.tableName = <<"a">>, !.partitionKey = k, !.p1 = i1,
                  !.p2 = i2, !.p3 = i3, !.imageTag = t, !.commitId = c,
                  !.service = s, !.hldCommitId = h, !.env = e,
                  !.manifestCommitId = m, !.pr = r] :
     k \in {Undefined, <<"k">>}, i1 \in {Undefined, <<"b">>},
     i2 \in {Undefined, <<"p">>}, i3 \in {Undefined, <<"q">>},
     t \in {Undefined, <<" ">>, <<"t">>}, c \in {Undefined, <<"c">>},
     s \in {Undefined, <<"s">>}, h \in {Undefined, <<"h">>},
     e \in {Undefined, <<>>, <<"e">>}, m \in {Undefined, <<"m">>},
     r \in {Undefined, <<"r">>}}

\* Mutant: the test for p2 comes before the test for p1.
execute_ReleaseFirst(p) ==
  /\ At(p, "idle")
  /\ callsLeft > 0
  /\ callsLeft' = callsLeft - 1
  /\ \E o \in CommandOpts, rowKey \in RowKeys, tableUp \in BOOLEAN :
     IF ~validateValues(o) THEN CommandThrows(p, o, "validateValues")
     ELSE IF hasValue(o.p2) THEN handlePipeline2(p, o, tableUp)
     ELSE IF hasValue(o.p1) THEN handlePipeline1(p, o, rowKey, tableUp)
     ELSE IF hasValue(o.p3) /\ hasValue(o.hldCommitId)
     THEN LET a == Pipeline3Args(o)
              es == findMatchingDeployments(store, a.partitionKey,
                                            "hldCommitId", a.hldCommitId)
          IN /\ CallResolver(p, o, "stage3", a)
             /\ Query(p, es, tableUp,
                      IF QueriesByPr(es, a) THEN "stage3_by_pr"
                      ELSE "stage3_write")
             /\ Queried(p, "hldCommitId", a.hldCommitId, es, tableUp)
     ELSE IF hasValue(o.p3) /\ hasValue(o.manifestCommitId)
     THEN LET a == ManifestCommitArgs(o)
              es == findMatchingDeployments(store, a.partitionKey, "p3",
                                            a.pipelineId)
          IN /\ CallResolver(p, o, "finalizer", a)
             /\ Query(p, es, tableUp, "finalizer_write")
             /\ Queried(p, "p3", a.pipelineId, es, tableUp)
     ELSE CommandThrows(p, o, "execute")

\* execute up to the first awaited table call of the resolver it picks, or
\* up to exitFn(1) when it throws before calling one.
execute(p) ==
  /\ At(p, "idle")
  /\ callsLeft > 0
  /\ callsLeft' = callsLeft - 1
  /\ \E o \in CommandOpts, rowKey \in RowKeys, tableUp \in BOOLEAN :
     IF ~validateValues(o) THEN CommandThrows(p, o, "validateValues")
     ELSE IF hasValue(o.p1) THEN handlePipeline1(p, o, rowKey, tableUp)
     ELSE IF hasValue(o.p2) THEN handlePipeline2(p, o, tableUp)
     ELSE IF hasValue(o.p3) /\ hasValue(o.hldCommitId)
     THEN LET a == Pipeline3Args(o)
              es == findMatchingDeployments(store, a.partitionKey,
                                            "hldCommitId", a.hldCommitId)
          IN /\ CallResolver(p, o, "stage3", a)
             /\ Query(p, es, tableUp,
                      IF QueriesByPr(es, a) THEN "stage3_by_pr"
                      ELSE "stage3_write")
             /\ Queried(p, "hldCommitId", a.hldCommitId, es, tableUp)
     ELSE IF hasValue(o.p3) /\ hasValue(o.manifestCommitId)
     THEN LET a == ManifestCommitArgs(o)
              es == findMatchingDeployments(store, a.partitionKey, "p3",
                                            a.pipelineId)
          IN /\ CallResolver(p, o, "finalizer", a)
             /\ Query(p, es, tableUp, "finalizer_write")
             /\ Queried(p, "p3", a.pipelineId, es, tableUp)
     ELSE CommandThrows(p, o, "execute")

\* The resolver has returned or thrown: exitFn(0), or the catch block's
\* exitFn(1).
exitFn(p) ==
  /\ pc[p] \in {"done", "failed"}
  /\ op[p] \in {"stage1", "stage2", "stage3", "finalizer"}
  /\ command' = [command EXCEPT
                   ![p].exits = Append(@, IF pc[p] = "done" THEN 0 ELSE 1)]
  /\ pc' = [pc EXCEPT ![p] = "exited"]
  /\ UNCHANGED <<store, op, args, entries, ret, writes, storeErrors, callsLeft,
                 before, queries, selfTest>>

\* The process has exited; the next command is a new process.
NewProcess(p) ==
  /\ pc[p] = "exited"
  /\ pc' = [pc EXCEPT ![p] = "idle"]
  /\ op' = [op EXCEPT ![p] = "none"]
  /\ args' = [args EXCEPT ![p] = NoArgs]
  /\ entries' = [entries EXCEPT ![p] = <<>>]
  /\ ret' = [ret EXCEPT ![p] = NoEntry]
  /\ writes' = [writes EXCEPT ![p] = 0]
  /\ storeErrors' = [storeErrors EXCEPT ![p] = 0]
  /\ before' = [before EXCEPT ![p] = {}]
  /\ queries' = [queries EXCEPT ![p] = <<>>]
  /\ command' = [command EXCEPT ![p] = NoCommand]
  /\ selfTest' = [selfTest EXCEPT ![p] = NoSelfTest]
  /\ UNCHANGED <<store, callsLeft>>

InitCommand ==
  /\ store = {}
  /\ pc = [p \in Procs |-> "idle"]
  /\ op = [p \in Procs |-> "none"]
  /\ args = [p \in Procs |-> NoArgs]
  /\ entries = [p \in Procs |-> <<>>]
  /\ ret = [p \in Procs |-> NoEntry]
  /\ writes = [p \in Procs |-> 0]
  /\ storeErrors = [p \in Procs |-> 0]
  /\ callsLeft = MaxCommandCalls
  /\ before = [p \in Procs |-> {}]
  /\ queries = [p \in Procs |-> <<>>]
  /\ selfTest = [p \in Procs |-> NoSelfTest]
  /\ command = [p \in Procs |-> NoCommand]

\* One command at a time: commands are run by caller 1.
NextCommand ==
  \/ execute(1)
  \/ \E rowKey \in RowKeys, tableUp \in BOOLEAN :
       updateACRToHLDPipelineWrite(1, rowKey, tableUp)
  \/ \E tableUp \in BOOLEAN : updateHLDToManifestPipelineByPr(1, tableUp)
  \/ \E rowKey \in RowKeys, tableUp \in BOOLEAN :
       updateHLDtoManifestHelper(1, rowKey, tableUp)
  \/ \E tableUp \in BOOLEAN : updateManifestCommitIdWrite(1, tableUp)
  \/ updateManifestCommitIdThrow(1)
  \/ exitFn(1)
  \/ NewProcess(1)

SpecCommand == InitCommand /\ [][NextCommand]_vars

\* Two self-test runs on one partition, interleaved in every way, with the
\* table answering every access.
NextSelfTestPair ==
  \/ \E p \in Procs, buildId \in SelfTestBuildIds, rowKey \in RowKeys :
       writeSelfTestData(p, buildId, rowKey, TRUE)
  \/ \E p \in Procs : writeSelfTestDataRelease(p, TRUE)
  \/ \E p \in Procs, rowKey \in RowKeys :
       writeSelfTestDataReleaseWrite(p, rowKey, TRUE)
  \/ \E p \in Procs : deleteSelfTestData(p, TRUE)
  \/ \E p \in Procs : deleteSelfTestDataEntry(p, TRUE)
  \/ \E p \in Procs : Return(p)

SpecSelfTestPair == InitSelfTest /\ [][NextSelfTestPair]_vars

\* ---------------------------------------------------- the validate command
\* A complete configuration: the sections are there (TRUE) and every value
\* is set.
FullConfig ==
  [introspection |-> TRUE, azure |-> TRUE, account_name |-> <<"a">>,
   key |-> <<"a">>, partition_key |-> SelfTestPartitionKey,
   table_name |-> <<"a">>, azure_devops |-> TRUE, org |-> <<"a">>,
   project |-> <<"a">>]

\* The configurations a validate command finds: complete, or with one
\* section or value missing, or with an empty key.
Configs ==
  {FullConfig,
   [FullConfig EXCEPT !.introspection = FALSE],
   [FullConfig EXCEPT !.azure = FALSE],
   [FullConfig EXCEPT !.account_name = Undefined],
   [FullConfig EXCEPT !.key = Undefined],
   [FullConfig EXCEPT !.key = <<>>],
   [FullConfig EXCEPT !.partition_key = Undefined],
   [FullConfig EXCEPT !.table_name = Undefined],
   [FullConfig EXCEPT !.azure_devops = FALSE],
   [FullConfig EXCEPT !.org = Undefined],
   [FullConfig EXCEPT !.project = Undefined]}

\* missingConfig of isValidConfig.
missingConfig(config) ==
  IF ~config.introspection THEN {"introspection"}
  ELSE (IF ~config.azure THEN {"config.introspection.azure"}
        ELSE {n \in {"account_name", "key", "partition_key", "table_name"} :
                ~Truthy(config[n])})
       \cup
       (IF ~config.azure_devops THEN {"config.azure_devops"}
        ELSE {n \in {"org", "project"} : ~Truthy(config[n])})

\* validate.ts execute up to the end of isValidConfig: it throws, and the
\* catch block calls exitFn(1), when a configuration value is missing.
executeValidate(p) ==
  /\ At(p, "idle")
  /\ callsLeft > 0
  /\ callsLeft' = callsLeft - 1
  /\ \E config \in Configs, flag \in BOOLEAN :
       LET thrown == missingConfig(config) # {}
       IN /\ command' = [command EXCEPT ![p] =
                           [opts |-> [selfTest |-> flag], config |-> config,
                            exits |-> IF thrown THEN <<1>> ELSE <<>>,
                            thrown |-> IF thrown THEN "isValidConfig"
                                       ELSE "none"]]
          /\ pc' = [pc EXCEPT ![p] = IF thrown THEN "exited" ELSE "validated"]
  /\ before' = [before EXCEPT ![p] = store]
  /\ UNCHANGED <<store, op, args, entries, ret, writes, storeErrors, queries,
                 selfTest>>

\* Without --self-test the command is over: exitFn(0).
executeValidateOnly(p) ==
  /\ At(p, "validated")
  /\ ~command[p].opts.selfTest
  /\ command' = [command EXCEPT ![p].exits = Append(@, 0)]
  /\ pc' = [pc EXCEPT ![p] = "exited"]
  /\ UNCHANGED <<store, op, args, entries, ret, writes, storeErrors, callsLeft,
                 before, queries, selfTest>>

\* With --self-test: runSelfTest, up to the end of writeSelfTestData's
\* stage-1 call.
runSelfTest(p, buildId, rowKey, tableUp) ==
  /\ At(p, "validated")
  /\ command[p].opts.selfTest
  /\ op' = [op EXCEPT ![p] = "selftest"]
  /\ args' = [args EXCEPT ![p] = SelfTestBuildArgs(buildId)]
  /\ selfTest' = [selfTest EXCEPT ![p] = [NoSelfTest EXCEPT !.buildId = buildId]]
  /\ SelfTestWrites(p, <<[kind |-> "insert",
                          entity |-> SrcToACRRow(SelfTestBuildArgs(buildId),
                                                 rowKey)]>>,
                    tableUp, "selftest_release")
  /\ UNCHANGED <<entries, ret, queries, callsLeft, command>>

\* Mutant: the status is 1 when the self-test did not verify.
exitFnValidate_ByVerified(p) ==
  /\ pc[p] \in {"done", "failed"}
  /\ op[p] = "selftest"
  /\ command' = [command EXCEPT
                   ![p].exits =
                     Append(@, IF selfTest[p].isVerified = "true" THEN 0
                               ELSE 1),
                   ![p].thrown = IF pc[p] = "done" THEN @ ELSE "runSelfTest"]
  /\ pc' = [pc EXCEPT ![p] = "exited"]
  /\ UNCHANGED <<store, op, args, entries, ret, writes, storeErrors, callsLeft,
                 before, queries, selfTest>>

\* runSelfTest has returned, whatever isVerified is, and exitFn(0) is
\* called; or it has thrown and the catch block calls exitFn(1).
exitFnValidate(p) ==
  /\ pc[p] \in {"done", "failed"}
  /\ op[p] = "selftest"
  /\ command' = [command EXCEPT
                   ![p].exits = Append(@, IF pc[p] = "done" THEN 0 ELSE 1),
                   ![p].thrown = IF pc[p] = "done" THEN @ ELSE "runSelfTest"]
  /\ pc' = [pc EXCEPT ![p] = "exited"]
  /\ UNCHANGED <<store, op, args, entries, ret, writes, storeErrors, callsLeft,
                 before, queries, selfTest>>

InitValidate ==
  /\ store = {}
  /\ pc = [p \in Procs |-> "idle"]
  /\ op = [p \in Procs |-> "none"]
  /\ args = [p \in Procs |-> NoArgs]
  /\ entries = [p \in Procs |-> <<>>]
  /\ ret = [p \in Procs |-> NoEntry]
  /\ writes = [p \in Procs |-> 0]
  /\ storeErrors = [p \in Procs |-> 0]
  /\ callsLeft = MaxValidateCalls
  /\ before = [p \in Procs |-> {}]
  /\ queries = [p \in Procs |-> <<>>]
  /\ selfTest = [p \in Procs |-> NoSelfTest]
  /\ command = [p \in Procs |-> NoCommand]

NextValidate ==
  \/ \E p \in Procs : executeValidate(p)
  \/ \E p \in Procs : executeValidateOnly(p)
  \/ \E p \in Procs, buildId \in SelfTestBuildIds, rowKey \in RowKeys,
        tableUp \in BOOLEAN :
       runSelfTest(p, buildId, rowKey, tableUp)
  \/ \E p \in Procs, tableUp \in BOOLEAN : writeSelfTestDataRelease(p, tableUp)
  \/ \E p \in Procs, rowKey \in RowKeys, tableUp \in BOOLEAN :
       writeSelfTestDataReleaseWrite(p, rowKey, tableUp)
  \/ \E p \in Procs, tableUp \in BOOLEAN : deleteSelfTestData(p, tableUp)
  \/ \E p \in Procs, tableUp \in BOOLEAN : deleteSelfTestDataEntry(p, tableUp)
  \/ \E p \in Procs : exitFnValidate(p)
  \/ \E p \in Procs : NewProcess(p)

SpecValidate == InitValidate /\ [][NextValidate]_vars

\* ================================================================== claims
\* What a finished call did, read off the table before and after its last
\* step (a handed-back call is the only one that has moved since).
Replaced(p) == pc[p] = "done" /\ Key(ret[p]) \in Keys(before[p])

Inserted(p) == pc[p] = "done" /\ Key(ret[p]) \notin Keys(before[p])

\* Two entities that agree on every property (the version aside).
SameRow(r, e) == [r EXCEPT !.etag = 0] = [e EXCEPT !.etag = 0]

\* The version caller p read for the row it wrote, 0 when it read none.
VersionRead(p) ==
  LET at == {i \in DOMAIN entries[p] : Key(entries[p][i]) = Key(ret[p])}
  IN IF at = {} THEN 0 ELSE entries[p][CHOOSE i \in at : TRUE].etag

\* C1: a replace of a row that another call has replaced since this call read
\* it fails: no stage-2 or stage-3 in-place mutation and no finalizer call
\* finishes successfully having replaced a row whose version at the write
\* differs from the version the call read.
C1_StaleReplaceFails ==
  \A p \in Procs :
    (Replaced(p) /\ op[p] \in {"stage2", "stage3", "finalizer"})
      => RowAt(before[p], Key(ret[p])).etag = VersionRead(p)

\* C2: a successful stage-1, stage-2 or stage-3 call has performed exactly
\* one table write.
C2_ExactlyOneWrite ==
  \A p \in Procs :
    (pc[p] = "done" /\ op[p] \in {"stage1", "stage2", "stage3"})
      => writes[p] = 1

\* C2 witness: a stage-2 call has finished in the clone branch.
C2_Witness ==
  \E p \in Procs :
    /\ Inserted(p) /\ op[p] = "stage2" /\ Len(entries[p]) > 0
    /\ writes[p] = 1

\* C3: a failed call has written nothing, and the step it failed in left the
\* table as it found it.
C3_FailedCallLeavesStore ==
  \A p \in Procs : pc[p] = "failed" => (writes[p] = 0 /\ store = before[p])

\* C3 witness: a stage-2 call that had candidates failed on its write, with
\* rows in the table.
C3_Witness ==
  \E p \in Procs :
    /\ pc[p] = "failed" /\ op[p] = "stage2" /\ Len(entries[p]) > 0
    /\ storeErrors[p] = 1 /\ store # {}

\* C4: an error of the table ends the call as failed at once: a call that got
\* an error is failed, got exactly one, and has written nothing.
C4_StoreErrorsSurface ==
  \A p \in Procs :
    storeErrors[p] > 0
      => (pc[p] = "failed" /\ storeErrors[p] = 1 /\ writes[p] = 0)

\* C4 witness: a stage-3 call failed on a table error while the table held
\* a row it could have gone on to write.
C4_Witness ==
  \E p \in Procs :
    /\ pc[p] = "failed" /\ op[p] = "stage3" /\ storeErrors[p] = 1
    /\ store # {}

\* The wildcard rule as C5 words it: a candidate's value that is missing or
\* empty matches anything.
ClaimedMatches(entry, a) ==
  /\ entry.p2 \in {Undefined, <<>>} \/ entry.p2 = a.pipelineId
  /\ entry.hldCommitId \in {Undefined, <<>>}
       \/ entry.hldCommitId = a.hldCommitId
  /\ entry.env \in {Undefined, <<>>} \/ entry.env = a.env

\* The wildcard rule amended: only a missing property matches anything.
AbsentOrEqual(entry, a) ==
  /\ entry.p2 = Undefined \/ entry.p2 = a.pipelineId
  /\ entry.hldCommitId = Undefined \/ entry.hldCommitId = a.hldCommitId
  /\ entry.env = Undefined \/ entry.env = a.env

\* C5 as stated: a successful stage-2 call with candidates replaced the first
\* candidate that matches under the missing-or-empty rule, and inserted a
\* row only when no candidate matches under it.
C5_Original ==
  \A p \in Procs :
    (pc[p] = "done" /\ op[p] = "stage2" /\ Len(entries[p]) > 0)
      => LET hits == {i \in DOMAIN entries[p] :
                        ClaimedMatches(entries[p][i], args[p])}
         IN IF hits = {} THEN Inserted(p)
            ELSE /\ Replaced(p)
                 /\ Key(ret[p])
                      = Key(entries[p][CHOOSE i \in hits :
                                         \A j \in hits : i <= j])

\* C5 amended: a successful stage-2 call with candidates replaced the first
\* candidate, in returned order, each of whose p2, hldCommitId and env is
\* missing or equal to the input; a candidate holding a different value,
\* the empty string included, is never selected, and a row is inserted only
\* when no candidate matches.
C5_FirstMatchSelected ==
  \A p \in Procs :
    (pc[p] = "done" /\ op[p] = "stage2" /\ Len(entries[p]) > 0)
      => LET hits == {i \in DOMAIN entries[p] :
                        AbsentOrEqual(entries[p][i], args[p])}
         IN IF hits = {} THEN Inserted(p)
            ELSE /\ Replaced(p)
                 /\ Key(ret[p])
                      = Key(entries[p][CHOOSE i \in hits :
                                         \A j \in hits : i <= j])

\* C5 witness: the first candidate holds a different value, a later one
\* matches, and the later one is the row replaced.
C5_Witness ==
  \E p \in Procs :
    /\ Replaced(p) /\ op[p] = "stage2" /\ Len(entries[p]) >= 2
    /\ ~AbsentOrEqual(entries[p][1], args[p])
    /\ Key(ret[p]) # Key(entries[p][1])

\* C6: a successful stage-2 call one of whose candidates matches has replaced
\* a matching candidate under that candidate's PartitionKey and RowKey, and
\* the table holds the same keys, hence as many rows, as before.
C6_MatchKeepsRowCount ==
  \A p \in Procs :
    (pc[p] = "done" /\ op[p] = "stage2"
       /\ \E i \in DOMAIN entries[p] : AbsentOrEqual(entries[p][i], args[p]))
      => /\ Keys(store) = Keys(before[p])
         /\ Cardinality(store) = Cardinality(before[p])
         /\ \E i \in DOMAIN entries[p] :
              /\ AbsentOrEqual(entries[p][i], args[p])
              /\ Key(ret[p]) = Key(entries[p][i])
         /\ SameRow(RowAt(store, Key(ret[p])), ret[p])
         /\ store \ {RowAt(store, Key(ret[p]))}
              = before[p] \ {RowAt(before[p], Key(ret[p]))}

\* C6 witness: a stage-2 call matched a row that already held stage-2 values
\* and replaced it.
C6_Witness ==
  \E p \in Procs :
    /\ Replaced(p) /\ op[p] = "stage2"
    /\ RowAt(before[p], Key(ret[p])).p2 # Undefined

\* The properties a stage-2 in-place mutation of C7 must leave alone, given
\* what the call supplied.
KeptByStage2(a) ==
  {"PartitionKey", "RowKey", "commitId", "imageTag", "p1", "service",
   "sourceRepo", "p3", "manifestCommitId", "manifestRepo"}
    \cup (IF Truthy(a.pr) THEN {} ELSE {"pr"})
    \cup (IF Truthy(a.repository) THEN {} ELSE {"hldRepo"})

\* C7: after a stage-2 in-place mutation, every property of the row other
\* than p2, hldCommitId, env and a supplied pr or hldRepo has the value it
\* had before the write.
C7_MutationKeepsOtherFields ==
  \A p \in Procs :
    (Replaced(p) /\ op[p] = "stage2")
      => \A f \in KeptByStage2(args[p]) :
           RowAt(store, Key(ret[p]))[f] = RowAt(before[p], Key(ret[p]))[f]

\* The part of C8 on which the statement and its amendment agree: the clone
\* is the one row added, under a key the table did not hold, carrying the
\* last candidate's stage-1 values.
ClonedFromLast(p) ==
  LET last == entries[p][Len(entries[p])]
      new == RowAt(store, Key(ret[p]))
  IN /\ Inserted(p)
     /\ store = before[p] \cup {new}
     /\ Cardinality(store) = Cardinality(before[p]) + 1
     /\ new.PartitionKey = last.PartitionKey
     /\ new.commitId = last.commitId
     /\ new.imageTag = last.imageTag
     /\ new.p1 = last.p1
     /\ new.service = last.service
     /\ new.sourceRepo = last.sourceRepo

NoneMatches(p) ==
  /\ Len(entries[p]) > 0
  /\ \A i \in DOMAIN entries[p] : ~AbsentOrEqual(entries[p][i], args[p])

\* C8 as stated: the clone's env, hldCommitId and p2 equal the inputs.
C8_Original ==
  \A p \in Procs :
    (pc[p] = "done" /\ op[p] = "stage2" /\ NoneMatches(p))
      => /\ ClonedFromLast(p)
         /\ RowAt(store, Key(ret[p])).env = args[p].env
         /\ RowAt(store, Key(ret[p])).hldCommitId = args[p].hldCommitId
         /\ RowAt(store, Key(ret[p])).p2 = args[p].pipelineId

\* C8 amended: when candidates exist and none matches, exactly one row is
\* inserted, under a new RowKey, whose commitId, imageTag, p1, service and
\* sourceRepo are the last candidate's and whose env, hldCommitId and p2 are
\* the inputs in lower case.
C8_CloneOfLast ==
  \A p \in Procs :
    (pc[p] = "done" /\ op[p] = "stage2" /\ NoneMatches(p))
      => /\ ClonedFromLast(p)
         /\ RowAt(store, Key(ret[p])).env = ToLowerCase(args[p].env)
         /\ RowAt(store, Key(ret[p])).hldCommitId
              = ToLowerCase(args[p].hldCommitId)
         /\ RowAt(store, Key(ret[p])).p2 = ToLowerCase(args[p].pipelineId)

\* C8 witness: two candidates with different stage-1 values, none matching,
\* and an upper-case run id: the clone carries the last one's values.
C8_Witness ==
  \E p \in Procs :
    /\ pc[p] = "done" /\ op[p] = "stage2" /\ NoneMatches(p)
    /\ Len(entries[p]) >= 2
    /\ entries[p][1].p1 # entries[p][Len(entries[p])].p1
    /\ args[p].pipelineId # ToLowerCase(args[p].pipelineId)

\* The stage-3 wildcard rule: a missing p3 or manifestCommitId matches
\* anything.
AbsentOrEqualManifest(entry, a) ==
  /\ entry.p3 = Undefined \/ entry.p3 = a.pipelineId
  /\ entry.manifestCommitId = Undefined
       \/ entry.manifestCommitId = a.manifestCommitId

\* The finished call was a clone case: it had candidates and none matched
\* under its stage's rule.
CloneCase(p) ==
  /\ pc[p] = "done"
  /\ \/ op[p] = "stage2" /\ NoneMatches(p)
     \/ /\ op[p] = "stage3" /\ Len(entries[p]) > 0
        /\ \A i \in DOMAIN entries[p] :
             ~AbsentOrEqualManifest(entries[p][i], args[p])

\* C9: a clone leaves every row that existed untouched; the one change to
\* the table is the added row.
C9_CloneLeavesOthers ==
  \A p \in Procs :
    CloneCase(p)
      => /\ before[p] \subseteq store
         /\ Cardinality(store \ before[p]) = 1
         /\ \A r \in before[p] : RowAt(store, Key(r)) = r

\* C9 witness: a stage-3 call cloned a candidate.
C9_Witness ==
  \E p \in Procs : CloneCase(p) /\ op[p] = "stage3" /\ Inserted(p)

FromStageOne(entry) ==
  /\ Truthy(entry.p1)
  /\ entry.p2 = Undefined /\ entry.hldCommitId = Undefined
  /\ entry.env = Undefined

\* C11: a successful stage-2 call for an image tag whose first candidate is
\* the row stage 1 inserted for that tag has replaced that row: the row
\* written has the stage-1 row's RowKey and commitId, and env and
\* hldCommitId are the inputs in lower case, whatever their letter case.
C11_StageOneThenTwo ==
  \A p \in Procs :
    (pc[p] = "done" /\ op[p] = "stage2" /\ Len(entries[p]) > 0
       /\ FromStageOne(entries[p][1]))
      => LET new == RowAt(store, Key(ret[p]))
         IN /\ Replaced(p)
            /\ Key(new) = Key(entries[p][1])
            /\ Cardinality(store) = Cardinality(before[p])
            /\ new.commitId = entries[p][1].commitId
            /\ new.imageTag = args[p].imageTag
            /\ new.env = ToLowerCase(args[p].env)
            /\ new.hldCommitId = ToLowerCase(args[p].hldCommitId)

\* C11 witness: stage 2, given env and hldCommitId in upper case, replaced
\* the row of stage 1, which keeps commitId "C".
C11_Witness ==
  \E p \in Procs :
    /\ pc[p] = "done" /\ op[p] = "stage2" /\ Len(entries[p]) = 1
    /\ FromStageOne(entries[p][1])
    /\ args[p].env = <<"E">> /\ args[p].hldCommitId = <<"H">>
    /\ RowAt(store, Key(entries[p][1])).commitId = <<"C">>
    /\ RowAt(store, Key(entries[p][1])).env = <<"e">>

\* C12: a stage-1 call sends no query; when it succeeds it has added exactly
\* one row, under the caller's PartitionKey and a RowKey the table did not
\* hold, whose p1, imageTag, service and commitId are the inputs as given;
\* only an error of the table makes it fail.
C12_StageOneInserts ==
  \A p \in Procs :
    op[p] = "stage1"
      => /\ queries[p] = <<>> /\ entries[p] = <<>>
         /\ pc[p] = "failed" => storeErrors[p] = 1
         /\ pc[p] = "done"
              => LET new == RowAt(store, Key(ret[p]))
                 IN /\ Inserted(p)
                    /\ store = before[p] \cup {new}
                    /\ Cardinality(store) = Cardinality(before[p]) + 1
                    /\ new.PartitionKey = args[p].partitionKey
                    /\ new.p1 = args[p].pipelineId
                    /\ new.imageTag = args[p].imageTag
                    /\ new.service = args[p].serviceName
                    /\ new.commitId = args[p].commitId

\* C12 witness: stage 1 added a row for an upper-case image tag to a table
\* that already held a row of the same tag and run.
C12_Witness ==
  \E p \in Procs :
    /\ pc[p] = "done" /\ op[p] = "stage1"
    /\ args[p].imageTag # ToLowerCase(args[p].imageTag)
    /\ \E r \in before[p] :
         r.imageTag = args[p].imageTag /\ r.p1 = args[p].pipelineId
    /\ Cardinality(store) = Cardinality(before[p]) + 1

\* Every query the call of p has sent was answered, and the call is past
\* its lookups.
LookupsOver(p) ==
  /\ pc[p] \in {"stage3_write", "done", "failed"}
  /\ \A i \in DOMAIN queries[p] : queries[p][i].found >= 0

\* C13: a stage-3 call queries first by hldCommitId; it queries by pr, as
\* its second and last query, exactly when the first query returned no
\* entry and a pr was given, and the entries it goes on with are those of
\* the last query it sent.
C13_LookupOrder ==
  \A p \in Procs :
    op[p] = "stage3"
      => LET qs == queries[p]
         IN /\ Len(qs) \in {1, 2}
            /\ qs[1].filterName = "hldCommitId"
            /\ qs[1].filterValue = args[p].hldCommitId
            /\ Len(qs) = 2
                 => /\ qs[2].filterName = "pr"
                    /\ qs[2].filterValue = args[p].pr
                    /\ qs[1].found = 0 /\ Truthy(args[p].pr)
            /\ pc[p] = "stage3_by_pr"
                 => Len(qs) = 1 /\ qs[1].found = 0 /\ Truthy(args[p].pr)
            /\ LookupsOver(p)
                 => /\ Len(qs) = 2
                         <=> (qs[1].found = 0 /\ Truthy(args[p].pr))
                    /\ Len(entries[p]) = qs[Len(qs)].found
                    /\ \A i \in DOMAIN entries[p] :
                         entries[p][i][qs[Len(qs)].filterName]
                           = qs[Len(qs)].filterValue

\* C13 witness: a stage-3 call found nothing by hldCommitId, queried by pr
\* and went on with the entry that query returned.
C13_Witness ==
  \E p \in Procs :
    /\ pc[p] = "done" /\ op[p] = "stage3" /\ Len(queries[p]) = 2
    /\ queries[p][1].found = 0 /\ queries[p][2].found > 0
    /\ Key(ret[p]) = Key(entries[p][1])

\* The places, among the candidates of p, of those that pass the stage-3
\* wildcard rule.
HitsManifest(p) ==
  {i \in DOMAIN entries[p] : AbsentOrEqualManifest(entries[p][i], args[p])}

\* What a stage-3 write stores of the call's inputs: hldCommitId as hld
\* gives it, the run id in lower case, and each optional input, when one
\* was supplied, as its own conversion gives it.
StageThreeValues(new, a, hld, pr) ==
  /\ new.hldCommitId = hld
  /\ new.p3 = ToLowerCase(a.pipelineId)
  /\ Truthy(a.manifestCommitId)
       => new.manifestCommitId = ToLowerCase(a.manifestCommitId)
  /\ Truthy(a.pr) => new.pr = pr
  /\ Truthy(a.repository) => new.manifestRepo = ToLowerCase(a.repository)

\* C14: a successful stage-3 call with candidates selected the first
\* candidate, in returned order, whose p3 and manifestCommitId are each
\* missing or equal to the input, and replaced it under its own
\* PartitionKey and RowKey with hldCommitId set to the input, p3 to the
\* input run id (in lower case) and manifestCommitId, pr and manifestRepo
\* set when supplied; the table holds the same keys as before.  A row is
\* inserted only when no candidate passes.
C14_MatchMutatedInPlace ==
  \A p \in Procs :
    (pc[p] = "done" /\ op[p] = "stage3" /\ Len(entries[p]) > 0)
      => LET hits == HitsManifest(p)
             new == RowAt(store, Key(ret[p]))
         IN IF hits = {} THEN Inserted(p)
            ELSE /\ Replaced(p)
                 /\ Key(new)
                      = Key(entries[p][CHOOSE i \in hits :
                                         \A j \in hits : i <= j])
                 /\ Keys(store) = Keys(before[p])
                 /\ Cardinality(store) = Cardinality(before[p])
                 /\ store \ {new} = before[p] \ {RowAt(before[p], Key(new))}
                 /\ StageThreeValues(new, args[p], args[p].hldCommitId,
                                     args[p].pr)

\* C14 witness: the first candidate holds another run id, the second has
\* none and is the row replaced, by a call that supplied a manifest commit
\* id and a repository.
C14_Witness ==
  \E p \in Procs :
    /\ Replaced(p) /\ op[p] = "stage3" /\ Len(entries[p]) >= 2
    /\ 1 \notin HitsManifest(p)
    /\ Key(ret[p]) = Key(entries[p][2])
    /\ Truthy(args[p].manifestCommitId) /\ Truthy(args[p].repository)
    /\ RowAt(store, Key(ret[p])).manifestRepo = <<"u">>

\* The stage-3 call of p found nothing by hldCommitId and one candidate by
\* pr, and has finished successfully.
OneByPr(p) ==
  /\ pc[p] = "done" /\ op[p] = "stage3" /\ Len(queries[p]) = 2
  /\ queries[p][1].found = 0 /\ queries[p][2].found = 1

\* The one candidate was replaced under its own key, and now holds the
\* input hldCommitId and the input run id (in lower case).
AttachedInPlace(p) ==
  LET new == RowAt(store, Key(ret[p]))
  IN /\ Replaced(p)
     /\ Key(new) = Key(entries[p][1])
     /\ Cardinality(store) = Cardinality(before[p])
     /\ new.hldCommitId = args[p].hldCommitId
     /\ new.p3 = ToLowerCase(args[p].pipelineId)

\* C15 as stated: whenever the fallback query by pr returns one candidate,
\* that candidate is mutated in place.
C15_Original ==
  \A p \in Procs : OneByPr(p) => AttachedInPlace(p)

\* C15 amended: when the hldCommitId query returns nothing and the query by
\* pr returns one candidate whose p3 and manifestCommitId are each missing
\* or equal to the input, that candidate is replaced under its RowKey with
\* hldCommitId set to the input and p3 to the input run id in lower case;
\* when the candidate holds another p3 or manifestCommitId it is left as
\* it is and a new row is inserted.
C15_PrFallbackAttaches ==
  \A p \in Procs :
    OneByPr(p)
      => IF AbsentOrEqualManifest(entries[p][1], args[p])
         THEN AttachedInPlace(p)
         ELSE /\ Inserted(p)
              /\ before[p] \subseteq store
              /\ Cardinality(store) = Cardinality(before[p]) + 1

\* C15 witness: the candidate found by pr held hldCommitId "h"; the call,
\* given "H" and run id "Q", replaced it, and the row now holds "H".
C15_Witness ==
  \E p \in Procs :
    /\ OneByPr(p) /\ AbsentOrEqualManifest(entries[p][1], args[p])
    /\ entries[p][1].hldCommitId = <<"h">>
    /\ args[p].hldCommitId = <<"H">> /\ args[p].pipelineId = <<"Q">>
    /\ RowAt(store, Key(entries[p][1])).hldCommitId = <<"H">>
    /\ RowAt(store, Key(entries[p][1])).p3 = <<"q">>

\* C16: a successful stage-3 call that had candidates none of which passes
\* the wildcard rule has added exactly one row, under a RowKey the table
\* did not hold, whose commitId, env, hldRepo, imageTag, p1, p2, service and
\* sourceRepo are the last candidate's and whose hldCommitId, p3 and
\* supplied manifestCommitId, pr and manifestRepo are the inputs (in lower
\* case).
C16_CloneOfLastManifest ==
  \A p \in Procs :
    (pc[p] = "done" /\ op[p] = "stage3" /\ Len(entries[p]) > 0
       /\ HitsManifest(p) = {})
      => LET last == entries[p][Len(entries[p])]
             new == RowAt(store, Key(ret[p]))
         IN /\ Inserted(p)
            /\ store = before[p] \cup {new}
            /\ Cardinality(store) = Cardinality(before[p]) + 1
            /\ new.PartitionKey = last.PartitionKey
            /\ \A f \in {"commitId", "env", "hldRepo", "imageTag", "p1", "p2",
                          "service", "sourceRepo"} : new[f] = last[f]
            /\ StageThreeValues(new, args[p],
                                ToLowerCase(args[p].hldCommitId),
                                ToLowerCase(args[p].pr))

\* C16 witness: two candidates with different image tags, none passing; the
\* added row carries the tag of the last.
C16_Witness ==
  \E p \in Procs :
    /\ pc[p] = "done" /\ op[p] = "stage3" /\ Len(entries[p]) >= 2
    /\ HitsManifest(p) = {}
    /\ entries[p][1].imageTag # entries[p][Len(entries[p])].imageTag
    /\ RowAt(store, Key(ret[p])).imageTag
         = entries[p][Len(entries[p])].imageTag

\* The stage-3 call of p got no entry from any query it sent.
NoCandidate(p) ==
  /\ op[p] = "stage3" /\ LookupsOver(p)
  /\ \A i \in DOMAIN queries[p] : queries[p][i].found = 0

\* C17: a stage-3 call that found no candidate, neither by hldCommitId nor
\* by pr, fails only on an error of the table; when it succeeds it has
\* added exactly one row, with empty commitId, env, imageTag, p1, p2 and
\* service, whose hldCommitId, p3 and supplied manifestCommitId, pr and
\* manifestRepo are the inputs (in lower case).
C17_SyntheticManifestRow ==
  \A p \in Procs :
    NoCandidate(p)
      => /\ pc[p] = "failed" => storeErrors[p] = 1
         /\ pc[p] = "done"
              => LET new == RowAt(store, Key(ret[p]))
                 IN /\ Inserted(p)
                    /\ store = before[p] \cup {new}
                    /\ Cardinality(store) = Cardinality(before[p]) + 1
                    /\ new.PartitionKey = args[p].partitionKey
                    /\ \A f \in {"commitId", "env", "imageTag", "p1", "p2",
                                  "service"} : new[f] = <<>>
                    /\ StageThreeValues(new, args[p],
                                        ToLowerCase(args[p].hldCommitId),
                                        ToLowerCase(args[p].pr))

\* C17 witness: neither query returned an entry although the table held
\* rows, and the call added the synthetic row.
C17_Witness ==
  \E p \in Procs :
    /\ NoCandidate(p) /\ pc[p] = "done" /\ Len(queries[p]) = 2
    /\ before[p] # {}
    /\ RowAt(store, Key(ret[p])).imageTag = <<>>
    /\ RowAt(store, Key(ret[p])).p3 = <<"q">>

\* The finalizer call of p has ended, its query answered with n entries.
FinalizerOver(p) ==
  /\ op[p] = "finalizer" /\ pc[p] \in {"done", "failed"}
  /\ Len(queries[p]) = 1 /\ queries[p][1].found >= 0

\* C18: a successful finalizer call has replaced the first entry its query
\* by p3 returned, and no other row: that row holds the input
\* manifestCommitId, and manifestRepo (in lower case) when a repository
\* was given; every other property of it, every other row and the keys of
\* the table are as they were.
C18_FinalizerSetsFirst ==
  \A p \in Procs :
    (FinalizerOver(p) /\ pc[p] = "done")
      => LET first == entries[p][1]
             new == RowAt(store, Key(first))
             old == RowAt(before[p], Key(first))
         IN /\ queries[p][1].filterName = "p3"
            /\ first.p3 = args[p].pipelineId
            /\ Replaced(p) /\ Key(ret[p]) = Key(first)
            /\ Keys(store) = Keys(before[p])
            /\ Cardinality(store) = Cardinality(before[p])
            /\ store \ {new} = before[p] \ {old}
            /\ new.manifestCommitId = args[p].manifestCommitId
            /\ new.manifestRepo
                 = IF Truthy(args[p].repository)
                   THEN ToLowerCase(args[p].repository) ELSE old.manifestRepo
            /\ \A f \in DOMAIN BlankRow
                       \ {"manifestCommitId", "manifestRepo", "etag"} :
                 new[f] = old[f]

\* C18 witness: two rows hold the run id; the first now holds the manifest
\* commit id and repository given, next to the hldCommitId it had, and the
\* second is as it was.
C18_Witness ==
  \E p \in Procs :
    /\ FinalizerOver(p) /\ pc[p] = "done" /\ Len(entries[p]) >= 2
    /\ Truthy(args[p].repository)
    /\ RowAt(store, Key(entries[p][1])).manifestCommitId = <<"M">>
    /\ RowAt(store, Key(entries[p][1])).manifestRepo = <<"u">>
    /\ RowAt(store, Key(entries[p][1])).hldCommitId = <<"h">>
    /\ entries[p][2] \in store

\* C19: a finalizer call whose query by p3 returns no entry fails without a
\* write and without an error of the table, and leaves the table as it
\* was; a finalizer call that succeeds has replaced a row, never added one.
C19_FinalizerNeverInserts ==
  \A p \in Procs :
    FinalizerOver(p)
      => /\ queries[p][1].found = 0
              => /\ pc[p] = "failed" /\ storeErrors[p] = 0
                 /\ writes[p] = 0 /\ store = before[p]
         /\ pc[p] = "done"
              => queries[p][1].found > 0 /\ Keys(store) = Keys(before[p])

\* C19 witness: the table held rows, none with the run id asked for, and
\* the call failed.
C19_Witness ==
  \E p \in Procs :
    /\ FinalizerOver(p) /\ queries[p][1].found = 0
    /\ pc[p] = "failed" /\ store # {} /\ store = before[p]

\* The rows of st, their versions aside.
Records(st) == {[r EXCEPT !.etag = 0] : r \in st}

\* The first entry the finalizer call of p got already holds what the call
\* sets: the state an earlier call with the same inputs leaves.
AlreadyFinalized(p) ==
  /\ Len(entries[p]) > 0
  /\ entries[p][1].manifestCommitId = args[p].manifestCommitId
  /\ Truthy(args[p].repository)
       => entries[p][1].manifestRepo = ToLowerCase(args[p].repository)

\* C20: a finalizer call that follows a call with the same run id,
\* manifest commit id and repository leaves the records of the table as
\* that call left them, whether it succeeds or fails.
C20_FinalizerIdempotent ==
  \A p \in Procs :
    (FinalizerOver(p) /\ (AlreadyFinalized(p) \/ queries[p][1].found = 0))
      => Records(store) = Records(before[p])

\* C20 witness: of two rows with the run id the first held "M", which only
\* a finalizer stores in upper case; the call given "M" again succeeded.
C20_Witness ==
  \E p \in Procs :
    /\ FinalizerOver(p) /\ pc[p] = "done" /\ AlreadyFinalized(p)
    /\ Len(entries[p]) >= 2
    /\ args[p].manifestCommitId = <<"M">>
    /\ entries[p][2].manifestCommitId = Undefined
    /\ RowAt(store, Key(entries[p][1])).etag >= 3

\* The properties that hold a value to be stored in lower case.
LowerCased ==
  {"env", "hldCommitId", "pr", "manifestCommitId", "sourceRepo", "hldRepo",
   "manifestRepo"}

\* C21: every row of the table has env, hldCommitId, pr, manifestCommitId,
\* sourceRepo, hldRepo and manifestRepo, where present, in lower case.
C21_LowerCaseInvariant ==
  \A r \in store :
    \A f \in LowerCased : Present(r[f]) => r[f] = ToLowerCase(r[f])

\* C22: the table holds one row per (PartitionKey, RowKey); a call leaves
\* every key the table held in place; an in-place mutation writes under the
\* key of one of the candidates the call read and changes no key; a call
\* that adds a row adds it under a key the table did not hold and leaves
\* every row that existed as it was.
C22_KeysImmutable ==
  /\ \A r1, r2 \in store : Key(r1) = Key(r2) => r1 = r2
  /\ \A p \in Procs :
       pc[p] \in {"done", "failed"}
         => /\ Keys(before[p]) \subseteq Keys(store)
            /\ Cardinality(Keys(store)) = Cardinality(store)
            /\ (pc[p] = "done" /\ Cardinality(store) = Cardinality(before[p]))
                 => /\ Keys(store) = Keys(before[p])
                    /\ \E i \in DOMAIN entries[p] :
                         Key(ret[p]) = Key(entries[p][i])
            /\ (pc[p] = "done" /\ Cardinality(store) # Cardinality(before[p]))
                 => /\ Key(ret[p]) \notin Keys(before[p])
                    /\ before[p] \subseteq store
                    /\ Keys(store) = Keys(before[p]) \cup {Key(ret[p])}

\* C22 witness: a stage-3 call replaced a row in place in a table of
\* several rows, under the key the row had.
C22_Witness ==
  \E p \in Procs :
    /\ Replaced(p) /\ op[p] = "stage3" /\ Cardinality(store) >= 2
    /\ RowAt(store, Key(ret[p])) # RowAt(before[p], Key(ret[p]))

\* The rows of the image tag that were added to the table after the
\* stage-2 call of q had read its candidates: the work of calls that raced
\* with it.
Racers(q) ==
  {r \in before[q] :
     /\ r.PartitionKey = args[q].partitionKey
     /\ r.imageTag = args[q].imageTag
     /\ \A i \in DOMAIN entries[q] : Key(r) # Key(entries[q][i])}

\* C23: a stage-2 call that read candidates none of which matches, and
\* writes after another call has added a row for the tag, is not stopped
\* by it: it fails only on an error of the table, and when it succeeds it
\* has added its own clone of the last candidate it read, under another
\* RowKey, beside the rows of the calls it raced with.
C23_CloneRace ==
  \A q \in Procs :
    (op[q] = "stage2" /\ pc[q] \in {"done", "failed"} /\ NoneMatches(q)
       /\ Racers(q) # {})
      => /\ pc[q] = "failed" => storeErrors[q] = 1
         /\ pc[q] = "done"
              => /\ ClonedFromLast(q)
                 /\ Racers(q) \subseteq store
                 /\ \A r \in Racers(q) : Key(r) # Key(ret[q])

\* C23 witness: both calls read the same one candidate before either
\* wrote, and the table now holds two clones of it that differ in their
\* RowKey only.
C23_Witness ==
  \E q \in Procs :
    /\ op[q] = "stage2" /\ pc[q] = "done" /\ NoneMatches(q)
    /\ Len(entries[q]) = 1
    /\ \E r \in Racers(q) :
         /\ r \in store
         /\ Key(r) # Key(ret[q])
         /\ [r EXCEPT !.RowKey = 0]
              = [RowAt(store, Key(ret[q])) EXCEPT !.RowKey = 0]
         /\ r.env # entries[q][1].env
    /\ Cardinality(store) = 3

\* The properties that record the stages a row has been through.
StageFields == {"p1", "p2", "p3", "manifestCommitId"}

\* C24: a call that replaces a row leaves every one of p1, p2, p3 and
\* manifestCommitId that held a non-empty value with a non-empty value.
C24_StageFieldsGrow ==
  \A p \in Procs :
    Replaced(p)
      => \A f \in StageFields :
           Truthy(RowAt(before[p], Key(ret[p]))[f])
             => Truthy(RowAt(store, Key(ret[p]))[f])

\* ---------------------------------------------------------------------- C25
\* C25: No resolver call deletes a record: when a call has returned or
\* failed, every key the table held when the call's last step began is still
\* there and the table holds at least as many records as it did; the steps
\* before the last one are queries and leave the table as it is.
C25_ResolversNeverDelete ==
  \A p \in Procs :
    /\ pc[p] \in {"done", "failed"} =>
         /\ Keys(before[p]) \subseteq Keys(store)
         /\ Cardinality(store) >= Cardinality(before[p])
    /\ pc[p] \notin {"done", "failed", "idle"} => writes[p] = 0

\* A call that replaced one of two records in place: the table still holds
\* two records.
C25_Witness ==
  \E p \in Procs :
    /\ Replaced(p)
    /\ Cardinality(before[p]) = 2
    /\ store # before[p]
    /\ Cardinality(store) = 2

\* ---------------------------------------------------------------------- C26
\* The entries es as a set.
Range(es) == {es[i] : i \in DOMAIN es}

\* The self-test run of p has reported its status.
Reported(p) == op[p] = "selftest" /\ pc[p] = "done"

\* C26: A self-test run calls stage 1 with the sentinel service and its
\* generated id, then stage 2 with the same id and the sentinel environment,
\* then queries by the sentinel service and deletes the returned records in
\* order; it reports true exactly when every returned record was deleted and
\* one of them had the generated id as p1.  A run whose writes or query
\* failed reports nothing.
C26_SelfTestSequence ==
  \A p \in Procs :
    op[p] = "selftest" =>
      LET id == selfTest[p].buildId
      IN /\ id \in SelfTestBuildIds
         /\ pc[p] = "selftest_release" =>
              /\ args[p].serviceName = service
              /\ args[p].pipelineId = id
              /\ writes[p] = 1
              /\ queries[p] = <<>>
         /\ pc[p] \in {"selftest_release_write", "selftest_find"} =>
              /\ args[p].pipelineId = id
              /\ args[p].env = <<"S", "T">>
              /\ Len(queries[p]) = 1
              /\ queries[p][1].filterName = "imageTag"
         /\ pc[p] = "selftest_find" => writes[p] >= 2
         /\ pc[p] = "selftest_delete" \/ Reported(p) =>
              /\ Len(queries[p]) = 2
              /\ queries[p][2].filterName = "service"
              /\ queries[p][2].filterValue = service
              /\ selfTest[p].deleted =
                   {entries[p][i] : i \in 1..selfTest[p].deletes}
         /\ pc[p] = "selftest_delete" => selfTest[p].isVerified = "none"
         /\ pc[p] = "failed" => selfTest[p].isVerified = "none"
         /\ Reported(p) =>
              /\ selfTest[p].isVerified \in {"true", "false"}
              /\ selfTest[p].isVerified = "true" <=>
                   /\ selfTest[p].deleted = Range(entries[p])
                   /\ \E r \in selfTest[p].deleted : r.p1 = id

\* A run that reported true after deleting two records, one of them left by
\* an earlier run.
C26_Witness ==
  \E p \in Procs :
    /\ Reported(p)
    /\ selfTest[p].isVerified = "true"
    /\ Cardinality(selfTest[p].deleted) = 2
    /\ \E r \in selfTest[p].deleted : r.p1 # selfTest[p].buildId
    /\ store = {}

\* ---------------------------------------------------------------------- C27
\* The value v is absent, empty or blank.
Lacks(v) == v = Undefined \/ v = <<>> \/ v = <<" ">>

\* A stage-1 request (a run id p1 is given) without one of the values stage
\* 1 requires.
Stage1Lacking(o) ==
  /\ ~Lacks(o.p1)
  /\ Lacks(o.imageTag) \/ Lacks(o.commitId) \/ Lacks(o.service)

\* A stage-2 request (a run id p2 and no p1 is given) without one of the
\* values stage 2 requires.
Stage2Lacking(o) ==
  /\ Lacks(o.p1)
  /\ ~Lacks(o.p2)
  /\ Lacks(o.hldCommitId) \/ Lacks(o.env) \/ Lacks(o.imageTag)

\* C27: A command given a stage-1 request that lacks imageTag, commitId or
\* service, or a stage-2 request that lacks hldCommitId, env or imageTag,
\* throws before any resolver is called: it has sent no query and made no
\* write, the table is as it was, and its one exit call has status 1.
C27_MissingValuesRejected ==
  \A p \in Procs :
    LET o == command[p].opts
    IN Stage1Lacking(o) \/ Stage2Lacking(o) =>
         /\ pc[p] = "exited"
         /\ command[p].exits = <<1>>
         /\ command[p].thrown \in
              {"validateValues", "handlePipeline1", "handlePipeline2"}
         /\ op[p] = "none"
         /\ queries[p] = <<>>
         /\ writes[p] = 0
         /\ storeErrors[p] = 0
         /\ store = before[p]

\* A stage-1 request with a blank image tag, rejected by handlePipeline1
\* while the table holds a record.
C27_Witness ==
  \E p \in Procs :
    /\ pc[p] = "exited"
    /\ Stage1Lacking(command[p].opts)
    /\ command[p].opts.imageTag = <<" ">>
    /\ command[p].thrown = "handlePipeline1"
    /\ command[p].exits = <<1>>
    /\ store # {}

\* ---------------------------------------------------------------------- C28
\* The record r carries the values a stage-1 event brings.
HoldsStageOne(r) == Truthy(r.p1) /\ Truthy(r.commitId) /\ Truthy(r.service)

\* The record r carries the values a stage-2 event brings.
HoldsStageTwo(r) == Truthy(r.p2) /\ Truthy(r.env) /\ Truthy(r.hldCommitId)

\* The records of image tag t, in whatever letter case it was stored.
OfImageTag(t) == {r \in store : ToLowerCase(r.imageTag) = ToLowerCase(t)}

\* C28: Once the table holds, for one image tag, a record with the stage-1
\* values and a record with the stage-2 values (both events were processed,
\* in whatever order), one record of that tag holds both.
C28_OrderIndependent ==
  \A t \in {r.imageTag : r \in store} :
    (/\ \E r \in OfImageTag(t) : HoldsStageOne(r)
     /\ \E r \in OfImageTag(t) : HoldsStageTwo(r))
    => \E r \in OfImageTag(t) : HoldsStageOne(r) /\ HoldsStageTwo(r)

\* ---------------------------------------------------------------------- C29
\* The tables s1 and s2 hold the same records, versions aside.
SameRecords(s1, s2) ==
  {[r EXCEPT !.etag = 0] : r \in s1} = {[r EXCEPT !.etag = 0] : r \in s2}

\* C29: A stage-2 call made right after a successful stage-2 call with the
\* same arguments, in whatever letter case, leaves the records of the table
\* as the first call left them: it writes to a record that was there and adds
\* none.
C29_RedeliveryIdempotent ==
  \A p \in Procs :
    (pc[p] = "done" /\ op[p] = "stage2_again") =>
      /\ SameRecords(store, before[p])
      /\ Key(ret[p]) \in Keys(before[p])

\* ---------------------------------------------------------------------- C30
\* The records a stage-2 call stored for the HLD commit h and no later
\* stage has written to: stage 2 stores the commit id in lower case and no
\* p3.
ReleasedFor(st, partitionKey, h) ==
  {r \in st : /\ r.PartitionKey = partitionKey
              /\ Truthy(r.p2)
              /\ r.p3 = Undefined
              /\ r.hldCommitId = ToLowerCase(h)}

\* C30: A successful stage-3 call given the HLD commit H, made when the
\* table held a record that stage 2 stored for H (H in either letter case),
\* got that record back from its query by hldCommitId and did not insert the
\* synthetic row of the no-candidates branch.
C30_StageThreeFindsRelease ==
  \A p \in Procs :
    (/\ pc[p] = "done"
     /\ op[p] = "stage3"
     /\ ReleasedFor(before[p], args[p].partitionKey, args[p].hldCommitId) # {})
    => /\ queries[p][1].filterName = "hldCommitId"
       /\ queries[p][1].found > 0
       /\ ~(ret[p].imageTag = <<>> /\ Key(ret[p]) \notin Keys(before[p]))

\* ---------------------------------------------------------------------- C31
\* The records a stage-3 call given the run id i has written: every stage-3
\* write path stores the run id in lower case.
GeneratedBy(st, partitionKey, i) ==
  {r \in st : r.PartitionKey = partitionKey /\ r.p3 = ToLowerCase(i)}

\* C31: A finalizer call given the run id P, made when the table held a
\* record that a stage-3 call given P wrote (P in either letter case), got
\* that record back from its query by p3 and returned; it did not throw for
\* want of a manifest generation.
C31_FinalizerFindsManifest ==
  \A p \in Procs :
    (/\ pc[p] \in {"done", "failed"}
     /\ op[p] = "finalizer"
     /\ GeneratedBy(before[p], args[p].partitionKey, args[p].pipelineId) # {})
    => /\ pc[p] = "done"
       /\ queries[p][1].found > 0

\* ---------------------------------------------------------------------- C32
\* The property f of the record that the call of p replaced is still there
\* with its value.
Kept(p, f) ==
  Present(RowAt(before[p], Key(ret[p]))[f]) =>
    RowAt(store, Key(ret[p]))[f] = RowAt(before[p], Key(ret[p]))[f]

\* C32: A stage-3 call that mutated a record in place and was given no PR
\* id, no manifest commit id or no repository has left the record's pr,
\* manifestCommitId or manifestRepo, respectively, as it was.
C32_ManifestKeepsOthers ==
  \A p \in Procs :
    (Replaced(p) /\ op[p] = "stage3") =>
      /\ ~Truthy(args[p].pr) => Kept(p, "pr")
      /\ ~Truthy(args[p].manifestCommitId) => Kept(p, "manifestCommitId")
      /\ ~Truthy(args[p].repository) => Kept(p, "manifestRepo")

\* ---------------------------------------------------------------------- C33
\* The records that go back to the no-candidates branch of a stage-2 call
\* given the image tag t: that branch stores the tag in lower case and empty
\* stage-1 values, which a clone carries over.
Degraded(st, partitionKey, t) ==
  {r \in st : /\ r.PartitionKey = partitionKey
              /\ r.imageTag = ToLowerCase(t)
              /\ r.p1 = <<>>
              /\ r.service = <<>>}

\* C33: A successful stage-2 call given the image tag T, made when the table
\* held a record that an earlier stage-2 call given T had inserted in its
\* no-candidates branch (T in either letter case), got such a record back as
\* a candidate and did not take the no-candidates branch again.
C33_DegradedFoundAgain ==
  \A p \in Procs :
    (/\ pc[p] = "done"
     /\ op[p] = "stage2"
     /\ Degraded(before[p], args[p].partitionKey, args[p].imageTag) # {})
    => /\ queries[p][1].found > 0
       /\ \E i \in DOMAIN entries[p] :
            entries[p][i] \in Degraded(before[p], args[p].partitionKey,
                                       args[p].imageTag)

\* ---------------------------------------------------------------------- C34
\* The resolver the options o select: the first of the four conditions that
\* holds, "none" when none does.
Selected(o) ==
  IF ~Lacks(o.p1) THEN "stage1"
  ELSE IF ~Lacks(o.p2) THEN "stage2"
  ELSE IF ~Lacks(o.p3) /\ ~Lacks(o.hldCommitId) THEN "stage3"
  ELSE IF ~Lacks(o.p3) /\ ~Lacks(o.manifestCommitId) THEN "finalizer"
  ELSE "none"

\* The query fields of each resolver.
FiltersOf(name) ==
  CASE name = "stage2" -> {"imageTag"}
    [] name = "stage3" -> {"hldCommitId", "pr"}
    [] name = "finalizer" -> {"p3"}
    [] OTHER -> {}

\* C34: A command runs at most one resolver, the one its options select by
\* the first condition that holds among p1, p2, p3 with hldCommitId and p3
\* with manifestCommitId: every query it sends is one of that resolver's and
\* it runs no resolver only when it threw before the call.  When no
\* condition holds it accesses the table not at all and exits with status 1.
C34_DispatchOrdered ==
  \A p \in Procs :
    command[p] # NoCommand =>
      LET o == command[p].opts
      IN /\ op[p] \in {Selected(o), "none"}
         /\ op[p] = "none" <=> command[p].thrown # "none"
         /\ \A i \in DOMAIN queries[p] :
              queries[p][i].filterName \in FiltersOf(op[p])
         /\ op[p] \in {"stage1", "none"} => queries[p] = <<>>
         /\ op[p] # "stage1" /\ pc[p] = "exited" /\ writes[p] > 0 =>
              queries[p] # <<>>
         /\ Selected(o) = "none" =>
              /\ pc[p] = "exited"
              /\ command[p].exits = <<1>>
              /\ writes[p] = 0
              /\ storeErrors[p] = 0
              /\ store = before[p]

\* A command given every run id and every value ran stage 1 only and exited
\* with status 0.
C34_Witness ==
  \E p \in Procs :
    LET o == command[p].opts
    IN /\ pc[p] = "exited"
       /\ ~Lacks(o.p1) /\ ~Lacks(o.p2) /\ ~Lacks(o.p3)
       /\ ~Lacks(o.hldCommitId) /\ ~Lacks(o.manifestCommitId)
       /\ ~Lacks(o.env)
       /\ op[p] = "stage1"
       /\ writes[p] = 1
       /\ command[p].exits = <<0>>

\* ---------------------------------------------------------------------- C35
\* C35: A validate command calls its exit function once, when it ends and
\* not before: with status 1 exactly when isValidConfig threw (a
\* configuration value is missing) or the self-test threw (a write or the
\* query of the self-test was rejected, so that it reported nothing), with
\* status 0 otherwise, whether the self-test verified or not.
C35_ValidateExitsOnce ==
  \A p \in Procs :
    command[p] # NoCommand =>
      /\ Len(command[p].exits) <= 1
      /\ pc[p] = "exited" <=> Len(command[p].exits) = 1
      /\ pc[p] = "exited" =>
           /\ command[p].exits[1] \in {0, 1}
           /\ command[p].exits[1] = 1 <=>
                \/ missingConfig(command[p].config) # {}
                \/ op[p] = "selftest" /\ selfTest[p].isVerified = "none"
           /\ selfTest[p].isVerified \in {"true", "false"} =>
                command[p].exits = <<0>>
           /\ ~command[p].opts.selfTest => op[p] = "none"
           /\ missingConfig(command[p].config) # {} =>
                op[p] = "none" /\ writes[p] = 0 /\ queries[p] = <<>>

\* A validate command whose self-test did not verify and that exited with
\* status 0.
C35_Witness ==
  \E p \in Procs :
    /\ pc[p] = "exited"
    /\ op[p] = "selftest"
    /\ selfTest[p].isVerified = "false"
    /\ command[p].exits = <<0>>

\* ---------------------------------------------------------------------- C36
\* C36: With the table answering every access, every self-test run that
\* got through its two writes reports that it verified, whatever another
\* run on the same partition does in between.
C36_SelfTestsIndependent ==
  \A p \in Procs : Reported(p) => selfTest[p].isVerified = "true"

\* ---------------------------------------------------------------------- C37
\* The records of st outside the partition k.
Outside(st, k) == {r \in st : r.PartitionKey # k}

\* C37: A resolver call made with the partition key K holds only
\* candidates of partition K; when it has returned or failed, the records
\* outside K are those that were there before its last step, and the record
\* it returns is one of partition K.
C37_PartitionIsolation ==
  \A p \in Procs :
    op[p] # "none" =>
      /\ \A i \in DOMAIN entries[p] :
           entries[p][i].PartitionKey = args[p].partitionKey
      /\ pc[p] \in {"done", "failed"} =>
           Outside(store, args[p].partitionKey)
             = Outside(before[p], args[p].partitionKey)
      /\ pc[p] = "done" =>
           /\ ret[p].PartitionKey = args[p].partitionKey
           /\ Key(ret[p]) \in Keys(store)

\* A stage-2 call for partition k that cloned its candidate while
\* partition j held a record of the same image tag.
C37_Witness ==
  \E p \in Procs :
    /\ pc[p] = "done"
    /\ op[p] = "stage2"
    /\ args[p].partitionKey = <<"k">>
    /\ Len(entries[p]) = 1
    /\ Key(ret[p]) \notin Keys(before[p])
    /\ \E r \in Outside(store, <<"k">>) : r.imageTag = args[p].imageTag

\* ------------------------------------------------------------ RowKey token
\* deploymenttable.ts getRowKey: uuid().replace("-", "").substring(0, 12).
HexDigits ==
  {"0", "1", "2", "3", "4", "5", "6", "7", "8", "9",
   "a", "b", "c", "d", "e", "f"}

\* uuid/v4 prints five dash-separated groups of lower-case hexadecimal
\* digits, 8-4-4-4-12; the third starts with the version 4, the fourth with
\* the variant 8, 9, a or b.
TimeLow ==
  {<<"0", "1", "2", "3", "4", "5", "6", "7">>,
   <<"8", "9", "a", "b", "c", "d", "e", "f">>,
   <<"f", "0", "0", "d", "c", "a", "f", "e">>}

\* Second group.
TimeMid ==
  {<<"0", "a", "1", "b">>,
   <<"f", "f", "f", "f">>}

\* Third group.
TimeHiAndVersion ==
  {<<"4", "c", "2", "d">>,
   <<"4", "0", "0", "0">>}

\* Fourth group.
ClockSeq ==
  {<<"8", "e", "3", "f">>,
   <<"b", "9", "9", "9">>}

\* Fifth group.
Node ==
  {<<"0", "1", "2", "3", "4", "5", "6", "7", "8", "9", "a", "b">>,
   <<"f", "e", "d", "c", "b", "a", "9", "8", "7", "6", "5", "4">>}

Uuids ==
  {a \o <<"-">> \o b \o <<"-">> \o c \o <<"-">> \o d \o <<"-">> \o e :
     a \in TimeLow, b \in TimeMid, c \in TimeHiAndVersion, d \in ClockSeq,
     e \in Node}

\* Index of the first occurrence of pattern in s, 0 if there is none.
IndexOf(s, pattern) ==
  LET hits == {i \in 1..(Len(s) - Len(pattern) + 1) :
                 SubSeq(s, i, i + Len(pattern) - 1) = pattern}
  IN IF hits = {} THEN 0 ELSE CHOOSE i \in hits : \A j \in hits : i <= j

\* String.prototype.replace with a string pattern: only the first occurrence
\* is replaced.
replace(s, pattern, replacement) ==
  LET i == IndexOf(s, pattern)
  IN IF i = 0 THEN s
     ELSE SubSeq(s, 1, i - 1) \o replacement
            \o SubSeq(s, i + Len(pattern), Len(s))

\* String.prototype.substring(start, end) for 0 <= start <= end: the
\* characters at the zero-based indices start .. end - 1, clipped to s.
substring(s, start, end) ==
  SubSeq(s, start + 1, IF end < Len(s) THEN end ELSE Len(s))

getRowKey_NoReplace(uuid) == substring(uuid, 0, 12)

getRowKey(uuid) == substring(replace(uuid, <<"-">>, <<>>), 0, 12)

\* One call of getRowKey by caller p; args[p].uuid is what uuid() returns to
\* it, ret[p] the token handed back.
callGetRowKey(p) ==
  /\ pc[p] = "idle"
  /\ pc' = [pc EXCEPT ![p] = "done"]
  /\ op' = [op EXCEPT ![p] = "getRowKey"]
  /\ ret' = [ret EXCEPT ![p] = getRowKey(args[p].uuid)]
  /\ UNCHANGED <<store, args, entries, writes, storeErrors, callsLeft, before,
                 queries, selfTest, command>>

InitRowKey ==
  /\ store = {}
  /\ pc = [p \in Procs |-> "idle"]
  /\ op = [p \in Procs |-> "none"]
  /\ args \in [Procs -> [uuid : Uuids]]
  /\ entries = [p \in Procs |-> <<>>]
  /\ ret = [p \in Procs |-> <<>>]
  /\ writes = [p \in Procs |-> 0]
  /\ storeErrors = [p \in Procs |-> 0]
  /\ callsLeft = NumProcs
  /\ before = [p \in Procs |-> {}]
  /\ queries = [p \in Procs |-> <<>>]
  /\ selfTest = [p \in Procs |-> NoSelfTest]
  /\ command = [p \in Procs |-> NoCommand]

NextRowKey == \E p \in Procs : callGetRowKey(p)

SpecRowKey == InitRowKey /\ [][NextRowKey]_vars

\* The hexadecimal digits of a UUID, dashes left out.
HexOf(uuid) == SelectSeq(uuid, LAMBDA c : c # "-")

\* C38: for every canonical 8-4-4-4-12 UUID the RowKey generator returns a
\* token of exactly 12 characters, all of them hexadecimal digits (so no
\* dash), and the token is the UUID's first 12 hexadecimal digits.
C38_RowKeyIsTwelveHex ==
  \A p \in Procs :
    (pc[p] = "done" /\ op[p] = "getRowKey") =>
      /\ Len(ret[p]) = 12
      /\ \A i \in 1..Len(ret[p]) : ret[p][i] \in HexDigits
      /\ ret[p] = SubSeq(HexOf(args[p].uuid), 1, 12)

C38_Witness ==
  \E p \in Procs :
    /\ pc[p] = "done"
    /\ op[p] = "getRowKey"
    /\ Len(args[p].uuid) = 36
    /\ args[p].uuid[9] = "-"
    /\ ret[p][9] = args[p].uuid[10]
    /\ ret[p][12] = args[p].uuid[13]
====
